---- MODULE Spec2Model ----
(***************************************************************************)
(* Seismos: damage ledger (zustand store) with INSD consensus detection,   *)
(* and the earthquake simulator that feeds it.                             *)
(*                                                                         *)
(* Units.  Geographic coordinates are counted in 1e-4 degrees, so the      *)
(* neighbor radius 0.0015 is 15.  Times are milliseconds.  Scores are the  *)
(* integers the code produces (Math.floor / Math.round results).           *)
(*                                                                         *)
(* One action is one JavaScript task: the handler or timer callback        *)
(* together with the promise reactions it queues (the import().then of     *)
(* the store runs at the microtask checkpoint of the same task, the        *)
(* simulator module being already loaded).                                 *)
(***************************************************************************)
EXTENDS Integers, Sequences, FiniteSets, TLC

VARIABLES
    nodes,               \* store.nodes: id -> status (position is static)
    buildingDamages,     \* store.buildingDamages: id -> BuildingDamage
    isEarthquakeActive,  \* store.isEarthquakeActive
    earthquakeProgress,  \* store.earthquakeProgress
    buildingSummary,     \* store.buildingSummary
    lastHeartbeat,       \* store.lastHeartbeat: id -> time
    consensusEvidence,   \* store.consensusEvidence: id -> witness id list
    isInitialized,       \* Home: isInitialized ref
    now,                 \* Date.now()
    liveReadings,        \* simulator.liveReadings: id -> SensorReading
    deadNodes,           \* simulator.deadNodes
    currentDamages,      \* simulator.currentDamages: id -> score
    earthquakeInterval,  \* simulator.earthquakeInterval: handle or NoTimer
    idleInterval,        \* simulator.idleInterval: handle or NoTimer
    timers,              \* live setInterval timers: handle -> closure
    nextTimer,           \* next handle setInterval returns
    emitted,             \* reading tables handed to subscribers by the last task
    superseded,          \* history: handles of the events a reset found in progress
    nodeBaselines,       \* baselineTracker.nodeBaselines: id -> NodeBaseline
    lastIndicator,       \* what the latest call of the tracker returned
    updateCallbacks,     \* simulator.updateCallbacks: the registered callbacks
    received             \* callback -> the tables the last task called it with

vars == <<nodes, buildingDamages, isEarthquakeActive, earthquakeProgress,
          buildingSummary, lastHeartbeat, consensusEvidence, isInitialized, now,
          liveReadings, deadNodes, currentDamages, earthquakeInterval,
          idleInterval, timers, nextTimer, emitted, superseded,
          nodeBaselines, lastIndicator, updateCallbacks, received>>

----------------------------------------------------------------------------
(* Bounds *)

\* size of the building population (DEMO_NODES has 80)
NumBuildings == 5
\* the clock stops advancing here
MaxClock == 1500
\* the clock of the consensus runs stops advancing here
LongClock == 2500
\* applyEarthquakeDamage is not offered once a building would pass this
MaxAccumulated == 120
\* the clock advances in steps of this many milliseconds
ClockStep == 500
\* distance between adjacent buildings of the population, in 1e-4 degrees
NodeSpacing == 5
\* duration of an event in milliseconds (the dashboard passes 5000)
DurationMs == 150
\* a tick loop that is never cleared stops being followed after this many ticks
MaxTicks == 4
\* number of timers setInterval hands out
MaxTimers == 3
\* ticks of a truck-noise pulse (40 in the source)
NoiseTotalTicks == 2
\* CONFIG.baselineWindowSize: samples that establish the baseline (20 in the
\* source)
baselineWindowSize == 3
\* CONFIG.minSamplesForFatigue: samples before the trend is computed (30 in
\* the source)
minSamplesForFatigue == 4
\* CONFIG.historyWindowSize: capacity of the rolling window (50 in the source)
historyWindowSize == 5

(* Program constants *)

SILENCE_THRESHOLD == 1000
NEIGHBOR_RADIUS == 15
MinWitnesses == 3
TickIntervalMs == 50
DestructionThreshold == 85
\* CONFIG.fatigueThresholdSlope, -0.005 Hz per sample, in units of 0.00125 Hz
fatigueThresholdSlope == -4
\* CONFIG.minTrendConfidence, 0.3, in tenths
minTrendConfidence == 3
\* the 5.0 Hz getBaseline falls back to, in units of 0.00125 Hz
DefaultBaseline == 4000

----------------------------------------------------------------------------
(* Population and helpers *)

Ids == 1..NumBuildings

\* DEMO_NODES positions: a row of buildings NodeSpacing units apart, so
\* neighbors at 5 and 10 units are inside the radius and the ones at 15 and
\* more units are not.
NodeLat(id) == NodeSpacing * (id - 1)
NodeLng(id) == 0

EmptyMap == [x \in {} |-> 0]
NoTimer == 0

MapSet(m, k, v) == [x \in (DOMAIN m) \cup {k} |-> IF x = k THEN v ELSE m[x]]
Min(a, b) == IF a <= b THEN a ELSE b
Max(a, b) == IF a >= b THEN a ELSE b

\* Map iteration order is insertion order; every map here is filled in
\* DEMO_NODES order, which is ascending id.
RECURSIVE InOrder(_)
InOrder(S) ==
    IF S = {} THEN <<>>
    ELSE LET m == CHOOSE x \in S : \A y \in S : x <= y
         IN <<m>> \o InOrder(S \ {m})

SeqToSet(s) == {s[i] : i \in DOMAIN s}

----------------------------------------------------------------------------
(* Damage ledger *)

getStatusFromScore(score) ==
    IF score >= 90 THEN "collapse"
    ELSE IF score >= 70 THEN "critical"
    ELSE IF score >= 30 THEN "warning"
    ELSE IF score >= 15 THEN "anomaly"
    ELSE "stable"

\* 30 + floor(random * 15) and floor(random * 26)
ElevatedBaseScores == 30..44
OrdinaryBaseScores == 0..25

\* the draws the model follows: <<elevated, ordinary>>, the low ends and the
\* high ends of the two ranges
BaseScoreDraws == {<<30, 0>>, <<44, 25>>}

\* an assignment that elevates the first building only
BaseScoreAssignments_FirstOnly(S) ==
    {[id \in S |-> IF Cardinality({j \in S : j < id}) < 1 THEN d[1] ELSE d[2]] :
        d \in {x \in BaseScoreDraws :
                    x[1] \in ElevatedBaseScores /\ x[2] \in OrdinaryBaseScores}}

\* index 0 and 1 of the iteration get an elevated score
BaseScoreAssignments(S) ==
    {[id \in S |-> IF Cardinality({j \in S : j < id}) < 2 THEN d[1] ELSE d[2]] :
        d \in {x \in BaseScoreDraws :
                    x[1] \in ElevatedBaseScores /\ x[2] \in OrdinaryBaseScores}}

FreshDamage(base) ==
    [id \in DOMAIN base |->
        [baseScore |-> base[id], earthquakeDamage |-> 0, totalScore |-> base[id]]]

\* the summary setNodes and resetToSafe compute, from the scores
SummaryFromScores(dmg) ==
    [safe      |-> Cardinality({id \in DOMAIN dmg : dmg[id].totalScore < 30}),
     damaged   |-> Cardinality({id \in DOMAIN dmg :
                        dmg[id].totalScore >= 30 /\ dmg[id].totalScore < 70}),
     critical  |-> Cardinality({id \in DOMAIN dmg :
                        dmg[id].totalScore >= 70 /\ dmg[id].totalScore < 90}),
     collapsed |-> Cardinality({id \in DOMAIN dmg : dmg[id].totalScore >= 90})]

\* the summary updateBuildingSummary computes, from the statuses
SummaryFromStatus(nd) ==
    [safe      |-> Cardinality({id \in DOMAIN nd : nd[id] \in {"stable", "anomaly"}}),
     damaged   |-> Cardinality({id \in DOMAIN nd : nd[id] = "warning"}),
     critical  |-> Cardinality({id \in DOMAIN nd : nd[id] = "critical"}),
     collapsed |-> Cardinality({id \in DOMAIN nd :
                        nd[id] \in {"collapse", "collapse_inferred"}})]

\* a merge that forgets the cap of the total at 100
AddedRecord_Uncapped(current, addedDamage) ==
    [baseScore        |-> current.baseScore,
     earthquakeDamage |-> current.earthquakeDamage + addedDamage,
     totalScore       |-> current.baseScore + current.earthquakeDamage
                          + addedDamage]

\* a merge that stores the delta instead of accumulating it
AddedRecord_Overwrites(current, addedDamage) ==
    [baseScore        |-> current.baseScore,
     earthquakeDamage |-> addedDamage,
     totalScore       |-> Min(100, current.baseScore + addedDamage)]

\* applyEarthquakeDamage: the new record of one building
AddedRecord(current, addedDamage) ==
    [baseScore        |-> current.baseScore,
     earthquakeDamage |-> current.earthquakeDamage + addedDamage,
     totalScore       |-> Min(100, current.baseScore + current.earthquakeDamage
                                   + addedDamage)]

\* a merge that opens a record for a building that has none
AppliedDamages_CreatesRecord(dmg, damages) ==
    [id \in (DOMAIN dmg) \cup (DOMAIN damages) |->
        IF id \notin DOMAIN dmg
        THEN [baseScore |-> 0, earthquakeDamage |-> damages[id],
              totalScore |-> Min(100, damages[id])]
        ELSE IF id \in DOMAIN damages THEN AddedRecord(dmg[id], damages[id])
        ELSE dmg[id]]

\* applyEarthquakeDamage: the new buildingDamages
AppliedDamages(dmg, damages) ==
    [id \in DOMAIN dmg |->
        IF id \in DOMAIN damages THEN AddedRecord(dmg[id], damages[id])
        ELSE dmg[id]]

\* a merge that derives the status from the score before the merge
AppliedNodes_StaleScore(nd, dmg, damages) ==
    [id \in DOMAIN nd |->
        IF id \in DOMAIN damages /\ id \in DOMAIN dmg
           /\ nd[id] # "collapse_inferred"
        THEN getStatusFromScore(dmg[id].totalScore)
        ELSE nd[id]]

\* a merge that overwrites the status of a collapse_inferred building
AppliedNodes_OverridesInferred(nd, dmg, damages) ==
    [id \in DOMAIN nd |->
        IF id \in DOMAIN damages /\ id \in DOMAIN dmg
        THEN getStatusFromScore(AddedRecord(dmg[id], damages[id]).totalScore)
        ELSE nd[id]]

\* applyEarthquakeDamage: the new nodes
AppliedNodes(nd, dmg, damages) ==
    [id \in DOMAIN nd |->
        IF id \in DOMAIN damages /\ id \in DOMAIN dmg
           /\ nd[id] # "collapse_inferred"
        THEN getStatusFromScore(AddedRecord(dmg[id], damages[id]).totalScore)
        ELSE nd[id]]

AllScores(dmg) == [id \in DOMAIN dmg |-> dmg[id].totalScore]

----------------------------------------------------------------------------
(* INSD consensus *)

DistSq(a, b) ==
    (NodeLat(a) - NodeLat(b)) * (NodeLat(a) - NodeLat(b))
    + (NodeLng(a) - NodeLng(b)) * (NodeLng(a) - NodeLng(b))

\* Math.sqrt(dLat^2 + dLng^2) < NEIGHBOR_RADIUS
WithinRadius(a, b) == DistSq(a, b) < NEIGHBOR_RADIUS * NEIGHBOR_RADIUS

ActiveNodeIds(hb, t) == {id \in DOMAIN hb : t - hb[id] < SILENCE_THRESHOLD}

\* lastHeartbeat.get(nodeId) || 0
LastSeen(hb, id) == IF id \in DOMAIN hb THEN hb[id] ELSE 0

IsSilent(hb, t, id) == (t - LastSeen(hb, id)) > SILENCE_THRESHOLD

\* a witness search that accepts neighbors that are not active
Witnesses_AnyNeighbor(nd, hb, t, id) ==
    InOrder({n \in DOMAIN nd : n # id /\ WithinRadius(id, n)})

Witnesses(nd, hb, t, id) ==
    InOrder({n \in DOMAIN nd :
                n # id /\ n \in ActiveNodeIds(hb, t) /\ WithinRadius(id, n)})

\* an inference that does not ask whether an earthquake is active
Inferred_IgnoringEarthquake(nd, hb, t, active, id) ==
    /\ IsSilent(hb, t, id)
    /\ nd[id] # "collapse" /\ nd[id] # "collapse_inferred"
    /\ Len(Witnesses(nd, hb, t, id)) >= MinWitnesses

\* an inference that also overrides a collapse measured from the score
Inferred_OverridesCollapse(nd, hb, t, active, id) ==
    /\ IsSilent(hb, t, id)
    /\ nd[id] # "collapse_inferred"
    /\ active
    /\ Len(Witnesses(nd, hb, t, id)) >= MinWitnesses

\* an inference that is content with two witnesses
Inferred_TwoWitnesses(nd, hb, t, active, id) ==
    /\ IsSilent(hb, t, id)
    /\ nd[id] # "collapse" /\ nd[id] # "collapse_inferred"
    /\ active
    /\ Len(Witnesses(nd, hb, t, id)) >= MinWitnesses - 1

Inferred(nd, hb, t, active, id) ==
    /\ IsSilent(hb, t, id)
    /\ nd[id] # "collapse" /\ nd[id] # "collapse_inferred"
    /\ active
    /\ Len(Witnesses(nd, hb, t, id)) >= MinWitnesses

Retracted(nd, dmg, hb, t, id) ==
    /\ ~IsSilent(hb, t, id)
    /\ nd[id] = "collapse_inferred"
    /\ id \in DOMAIN dmg

ConsensusNodes(nd, dmg, hb, t, active) ==
    [id \in DOMAIN nd |->
        IF Inferred(nd, hb, t, active, id) THEN "collapse_inferred"
        ELSE IF Retracted(nd, dmg, hb, t, id)
             THEN getStatusFromScore(dmg[id].totalScore)
        ELSE nd[id]]

\* a retraction that leaves the evidence entry behind
ConsensusEvidence_KeepsRetracted(ev, nd, dmg, hb, t, active) ==
    LET added == {id \in DOMAIN nd : Inferred(nd, hb, t, active, id)}
    IN  [id \in (DOMAIN ev) \cup added |->
            IF id \in added THEN Witnesses(nd, hb, t, id) ELSE ev[id]]

ConsensusEvidence(ev, nd, dmg, hb, t, active) ==
    LET added   == {id \in DOMAIN nd : Inferred(nd, hb, t, active, id)}
        removed == {id \in DOMAIN nd : Retracted(nd, dmg, hb, t, id)}
    IN  [id \in ((DOMAIN ev) \cup added) \ removed |->
            IF id \in added THEN Witnesses(nd, hb, t, id) ELSE ev[id]]

\* a scan whose witness search skips the buildings that the map being written
\* marks collapse_inferred
ScanStep_WitnessesFromPartial(acc, nd, dmg, hb, t, active, id) ==
    LET witnesses == SelectSeq(Witnesses(nd, hb, t, id),
                               LAMBDA n : acc.nodes[n] # "collapse_inferred")
    IN  IF /\ IsSilent(hb, t, id)
           /\ nd[id] # "collapse" /\ nd[id] # "collapse_inferred"
           /\ active
           /\ Len(witnesses) >= MinWitnesses
        THEN [nodes |-> [acc.nodes EXCEPT ![id] = "collapse_inferred"],
              evidence |-> MapSet(acc.evidence, id, witnesses)]
        ELSE IF Retracted(nd, dmg, hb, t, id)
        THEN [nodes |-> [acc.nodes EXCEPT
                            ![id] = getStatusFromScore(dmg[id].totalScore)],
              evidence |-> [x \in (DOMAIN acc.evidence) \ {id} |->
                                acc.evidence[x]]]
        ELSE acc

\* the body of nodes.forEach for one building: it reads the maps taken at the
\* start of the call (nd, hb) and writes newNodes and newEvidence (acc)
ScanStep(acc, nd, dmg, hb, t, active, id) ==
    IF Inferred(nd, hb, t, active, id)
    THEN [nodes |-> [acc.nodes EXCEPT ![id] = "collapse_inferred"],
          evidence |-> MapSet(acc.evidence, id, Witnesses(nd, hb, t, id))]
    ELSE IF Retracted(nd, dmg, hb, t, id)
    THEN [nodes |-> [acc.nodes EXCEPT
                        ![id] = getStatusFromScore(dmg[id].totalScore)],
          evidence |-> [x \in (DOMAIN acc.evidence) \ {id} |->
                            acc.evidence[x]]]
    ELSE acc

\* nodes.forEach over the buildings in the given order, from the copies
\* new Map(nodes) and new Map(consensusEvidence)
RECURSIVE Scan(_, _, _, _, _, _, _)
Scan(order, acc, nd, dmg, hb, t, active) ==
    IF order = <<>> THEN acc
    ELSE Scan(Tail(order),
              ScanStep(acc, nd, dmg, hb, t, active, Head(order)),
              nd, dmg, hb, t, active)

----------------------------------------------------------------------------
(* Earthquake simulator *)

Reading(t, type) == [timestamp |-> t, signalType |-> type]

\* a base frequency that rises with the damage
IdleBaseFrequency_Rising(damage) == 1000 + 35 * Min(100, damage)

\* baseFrequency = 1.0 + 3.5 * Math.max(0, 1 - damage / 100), in mHz
IdleBaseFrequency(damage) == 1000 + 35 * Max(0, 100 - damage)

\* generateIdleReading: damage = this.currentDamages.get(nodeId) || 0; the
\* reading carries the base frequency, without the random 0..0.2 Hz on top
generateIdleReading(damages, t, nodeId) ==
    [timestamp |-> t, signalType |-> "idle",
     baseFrequency |->
        IdleBaseFrequency(IF nodeId \in DOMAIN damages THEN damages[nodeId]
                          ELSE 0)]

\* DEMO_NODES.forEach: an idle reading for a live node, no entry for a dead one
IdleTable(dead, t, damages) ==
    [id \in Ids \ dead |-> generateIdleReading(damages, t, id)]

\* a tick that notifies before the last building's reading is written
SeismicTable_Partial(dead, t) ==
    [id \in (Ids \ dead) \ {NumBuildings} |-> Reading(t, "seismic")]

\* the event tick's forEach: a seismic reading for a live node
SeismicTable(dead, t) == [id \in Ids \ dead |-> Reading(t, "seismic")]

\* BUILDING_METADATA: structure type, year built and floor count
StructureType(id) ==
    IF id % 4 = 1 THEN "betonarme"
    ELSE IF id % 4 = 2 THEN "yigma"
    ELSE IF id % 4 = 3 THEN "celik"
    ELSE "ahsap"
YearBuilt(id) == IF id % 2 = 0 THEN 1970 ELSE 2000
Floors(id) == IF id % 3 = 0 THEN 5 ELSE 3

\* vulnerabilityFactor, in thousandths
VulnerabilityFactor(id) ==
    LET type  == IF StructureType(id) = "ahsap" THEN 16
                 ELSE IF StructureType(id) = "yigma" THEN 14 ELSE 10
        age   == IF YearBuilt(id) < 1980 THEN 13 ELSE 10
        floor == IF Floors(id) > 4 THEN 12 ELSE 10
    IN  type * age * floor

\* Math.sqrt on the squared distances of this population (perfect squares)
Sqrt(n) == CHOOSE r \in 0..n : r * r <= n /\ (r + 1) * (r + 1) > n

\* a factor that grows with the distance
DamageDistanceFactor_GrowsWithDistance(id, epicenter) ==
    Min(200, 40 + Sqrt(DistSq(id, epicenter)))

\* max(0.2, 1 - distance * 50), in two-hundredths (distance in 1e-4 degrees)
DamageDistanceFactor(id, epicenter) ==
    Max(40, 200 - Sqrt(DistSq(id, epicenter)))

\* Math.round of a non-negative quotient
RoundDiv(num, den) == (2 * num + den) \div (2 * den)

\* a damage that is rounded and not clamped
ComputedDamage_Unclamped(id, intensity, epicenter, jitter) ==
    RoundDiv((intensity * 5) * DamageDistanceFactor(id, epicenter)
                * VulnerabilityFactor(id) * jitter,
             2 * 200 * 1000 * 20)

\* min(100, round(intensity * 25 * distanceFactor * vulnerabilityFactor *
\* (0.5 + random * 0.5))): intensity in tenths, jitter in twentieths
ComputedDamage(id, intensity, epicenter, jitter) ==
    Min(100, RoundDiv((intensity * 5) * DamageDistanceFactor(id, epicenter)
                        * VulnerabilityFactor(id) * jitter,
                      2 * 200 * 1000 * 20))

\* values drawn for the random inputs of an event
Intensities == {20}
Jitters == {19}
Epicenters == {2}

DamageResults(intensity, epicenter, jitter) ==
    [id \in Ids |-> ComputedDamage(id, intensity, epicenter, jitter[id])]

\* the jitter vectors the model draws: the same draw for every building
JitterVectors == {[id \in Ids |-> j] : j \in Jitters}

\* Math.min(100, (tickCount / totalTicks) * 100), in thousandths of a percent
Progress(tickCount, durationMs) ==
    Min(100000, (tickCount * TickIntervalMs * 100000) \div durationMs)

\* envelope = sin(progress / 100 * PI) > 0.8, i.e. the fraction
\* tickCount / totalTicks lies strictly between asin(0.8) / PI = 0.29517 and
\* 1 - asin(0.8) / PI = 0.70483 (compared in 1e-4)
EnvelopeHigh(tickCount, durationMs) ==
    LET frac == Min(10000, (tickCount * TickIntervalMs * 10000) \div durationMs)
    IN  frac >= 2952 /\ frac <= 7048

\* currentTotalScores.get(nodeId) || 0
ScoreOf(scores, id) == IF id \in DOMAIN scores THEN scores[id] ELSE 0

\* a projection that counts the event's delta twice
ProjectedTotal_DeltaTwice(scores, damageResults, id) ==
    Min(100, ScoreOf(scores, id) + 2 * damageResults[id])

\* Math.min(100, currentTotal + newDmg)
ProjectedTotal(scores, damageResults, id) ==
    Min(100, ScoreOf(scores, id) + damageResults[id])

\* a coin flipped on every tick, whatever the envelope
SilenceCandidates_AnyTick(c, tickCount, dead) ==
    {id \in DOMAIN c.damageResults :
        ProjectedTotal(c.currentTotalScores, c.damageResults, id)
            >= DestructionThreshold
        /\ id \notin dead}

\* buildings the silencing coin is flipped for on this tick
SilenceCandidates(c, tickCount, dead) ==
    IF EnvelopeHigh(tickCount, c.durationMs)
    THEN {id \in DOMAIN c.damageResults :
            ProjectedTotal(c.currentTotalScores, c.damageResults, id)
                >= DestructionThreshold
            /\ id \notin dead}
    ELSE {}

\* the buildings whose silencing coin the model lets come up below 0.4
SilenceDraws == {2, 5}

\* a clearInterval that leaves the timer running
ClearInterval_Keeps(tm, handle) == tm

\* clearInterval(handle)
ClearInterval(tm, handle) == [h \in (DOMAIN tm) \ {handle} |-> tm[h]]

QuakeTimers == {h \in DOMAIN timers : timers[h].kind = "quake"}
IdleTimers  == {h \in DOMAIN timers : timers[h].kind = "idle"}

\* the callbacks that subscribe: the dashboard panel's effect closures
Callbacks == {1, 2}

\* getReading: null for a dead node, else the table's entry, else a reading
\* made up on the spot
NoReading == [timestamp |-> 0, signalType |-> "null"]

\* a lookup that forgets the dead-node test
getReading_IgnoresDead(dead, readings, t, nodeId, damages) ==
    IF nodeId \in DOMAIN readings THEN readings[nodeId]
    ELSE generateIdleReading(damages, t, nodeId)

getReading(dead, readings, t, nodeId, damages) ==
    IF nodeId \in dead THEN NoReading
    ELSE IF nodeId \in DOMAIN readings THEN readings[nodeId]
    ELSE generateIdleReading(damages, t, nodeId)

----------------------------------------------------------------------------
(* Baseline tracker.  Frequencies are counted in units of 0.00125 Hz; the   *)
(* quotients the code computes in floating point are kept as exact          *)
(* fractions [num, den] with den > 0.                                       *)

Frac(n, d) == [num |-> n, den |-> d]

\* baselineFrequency: null
NoBaseline == 0 - 1

NewBaseline ==
    [frequencyHistory |-> <<>>, baselineFrequency |-> NoBaseline,
     isBaselineSet |-> FALSE]

RECURSIVE SumSeq(_)
SumSeq(s) == IF s = <<>> THEN 0 ELSE Head(s) + SumSeq(Tail(s))

RECURSIVE Insert(_, _)
Insert(x, s) ==
    IF s = <<>> THEN <<x>>
    ELSE IF x <= Head(s) THEN <<x>> \o s
    ELSE <<Head(s)>> \o Insert(x, Tail(s))

\* [...values].sort((a, b) => a - b)
RECURSIVE Sorted(_)
Sorted(s) == IF s = <<>> THEN <<>> ELSE Insert(Head(s), Sorted(Tail(s)))

\* calculateMedian; the mean of the two middle samples is exact for the
\* frequencies the model feeds, which are even
calculateMedian(values) ==
    LET sorted == Sorted(values)
        mid == Len(sorted) \div 2
    IN  IF Len(sorted) % 2 # 0 THEN sorted[mid + 1]
        ELSE (sorted[mid] + sorted[mid + 1]) \div 2

\* a regression that divides by the variance of the samples unguarded
linearRegression_NoVarianceGuard(values) ==
    LET n == Len(values)
        sumX == SumSeq([i \in 1..n |-> i - 1])
        sumY == SumSeq(values)
        sumXY == SumSeq([i \in 1..n |-> (i - 1) * values[i]])
        sumX2 == SumSeq([i \in 1..n |-> (i - 1) * (i - 1)])
        N == n * sumXY - sumX * sumY
        D == n * sumX2 - sumX * sumX
        ResNum(i) == values[i] * n * D - N * (i - 1) * n - sumY * D + N * sumX
        R == SumSeq([i \in 1..n |-> ResNum(i) * ResNum(i)])
        T == SumSeq([i \in 1..n |-> (n * values[i] - sumY) * (n * values[i] - sumY)])
    IN  IF n < 2 THEN [slope |-> Frac(0, 1), rSquared |-> Frac(0, 1)]
        ELSE IF D = 0 THEN [slope |-> Frac(0, 1), rSquared |-> Frac(0, 1)]
        ELSE [slope |-> Frac(N, D),
              rSquared |-> Frac(Max(0, D * D * T - R), D * D * T)]

\* linearRegression: slope and R^2 of the values against their index 0, 1, ...
\* With N = n*sumXY - sumX*sumY and D = n*sumX2 - sumX^2 the slope is N / D,
\* the residual of sample i is ResNum(i) / (n*D), ssRes = R / (n*D)^2 and
\* ssTot = T / n^2, so 1 - ssRes / ssTot = (D^2*T - R) / (D^2*T).
linearRegression(values) ==
    LET n == Len(values)
        sumX == SumSeq([i \in 1..n |-> i - 1])
        sumY == SumSeq(values)
        sumXY == SumSeq([i \in 1..n |-> (i - 1) * values[i]])
        sumX2 == SumSeq([i \in 1..n |-> (i - 1) * (i - 1)])
        N == n * sumXY - sumX * sumY
        D == n * sumX2 - sumX * sumX
        ResNum(i) == values[i] * n * D - N * (i - 1) * n - sumY * D + N * sumX
        R == SumSeq([i \in 1..n |-> ResNum(i) * ResNum(i)])
        T == SumSeq([i \in 1..n |-> (n * values[i] - sumY) * (n * values[i] - sumY)])
    IN  IF n < 2 THEN [slope |-> Frac(0, 1), rSquared |-> Frac(0, 1)]
        ELSE IF D = 0 THEN [slope |-> Frac(0, 1), rSquared |-> Frac(0, 1)]
        ELSE [slope |-> Frac(N, D),
              rSquared |-> IF T > 0 THEN Frac(Max(0, D * D * T - R), D * D * T)
                           ELSE Frac(0, 1)]

\* a threshold ten times as steep
SlopeBelowThreshold_TenTimes(slope) ==
    slope.num < 10 * fatigueThresholdSlope * slope.den

\* slope < CONFIG.fatigueThresholdSlope
SlopeBelowThreshold(slope) == slope.num < fatigueThresholdSlope * slope.den

\* rSquared > CONFIG.minTrendConfidence, i.e. 10 * num > tenths * den, with
\* den split into den \div 10 and den % 10 to stay within 32 bits
ConfidenceAboveMinimum(rSquared) ==
    rSquared.num - minTrendConfidence * (rSquared.den \div 10)
        > (minTrendConfidence * (rSquared.den % 10)) \div 10

\* a verdict that trusts the slope alone
Warns_SlopeOnly(regression) == SlopeBelowThreshold(regression.slope)

\* hasWarning of a window that is long enough
Warns(regression) ==
    /\ SlopeBelowThreshold(regression.slope)
    /\ ConfidenceAboveMinimum(regression.rSquared)

calculateFatigueIndicator(baseline, currentFrequency) ==
    LET sampleCount == Len(baseline.frequencyHistory)
        baselineFreq == IF baseline.baselineFrequency # NoBaseline
                        THEN baseline.baselineFrequency ELSE currentFrequency
        deviationPercent ==
            IF baselineFreq > 0
            THEN Frac((baselineFreq - currentFrequency) * 100, baselineFreq)
            ELSE Frac(0, 1)
        regression == linearRegression(baseline.frequencyHistory)
    IN  IF sampleCount < minSamplesForFatigue
        THEN [hasWarning |-> FALSE,
              trendSlope |-> Frac(0, 1),
              baselineFrequency |-> baselineFreq,
              currentFrequency |-> currentFrequency,
              deviationPercent |-> deviationPercent,
              sampleCount |-> sampleCount,
              trendConfidence |-> Frac(0, 1)]
        ELSE [hasWarning |-> Warns(regression),
              trendSlope |-> regression.slope,
              baselineFrequency |-> baselineFreq,
              currentFrequency |-> currentFrequency,
              deviationPercent |-> deviationPercent,
              sampleCount |-> sampleCount,
              trendConfidence |-> regression.rSquared]

\* a window that drops the newest sample when it is full
Pushed_KeepsOldest(history, frequency) ==
    LET all == Append(history, frequency)
    IN  IF Len(all) > historyWindowSize
        THEN SubSeq(all, 1, historyWindowSize)
        ELSE all

\* push, then shift while the window is over its capacity
Pushed(history, frequency) ==
    LET all == Append(history, frequency)
    IN  IF Len(all) > historyWindowSize
        THEN SubSeq(all, Len(all) - historyWindowSize + 1, Len(all))
        ELSE all

\* an update that recomputes the baseline on every sample
UpdatedBaseline_Recomputes(nb, nodeId, frequency) ==
    LET baseline == IF nodeId \in DOMAIN nb THEN nb[nodeId] ELSE NewBaseline
        history == Pushed(baseline.frequencyHistory, frequency)
    IN  IF Len(history) >= baselineWindowSize
        THEN [frequencyHistory |-> history,
              baselineFrequency |->
                  calculateMedian(SubSeq(history, 1, baselineWindowSize)),
              isBaselineSet |-> TRUE]
        ELSE [baseline EXCEPT !.frequencyHistory = history]

\* update: the node's record after the sample is taken in
UpdatedBaseline(nb, nodeId, frequency) ==
    LET baseline == IF nodeId \in DOMAIN nb THEN nb[nodeId] ELSE NewBaseline
        history == Pushed(baseline.frequencyHistory, frequency)
    IN  IF ~baseline.isBaselineSet /\ Len(history) >= baselineWindowSize
        THEN [frequencyHistory |-> history,
              baselineFrequency |->
                  calculateMedian(SubSeq(history, 1, baselineWindowSize)),
              isBaselineSet |-> TRUE]
        ELSE [baseline EXCEPT !.frequencyHistory = history]

\* getBaseline: baseline?.baselineFrequency ?? 5.0
getBaseline(nb, nodeId) ==
    IF nodeId \in DOMAIN nb /\ nb[nodeId].baselineFrequency # NoBaseline
    THEN nb[nodeId].baselineFrequency
    ELSE DefaultBaseline

\* no indicator: the latest call of the tracker returned nothing
NoIndicator ==
    [hasWarning |-> FALSE, trendSlope |-> Frac(0, 1),
     baselineFrequency |-> NoBaseline, currentFrequency |-> 0,
     deviationPercent |-> Frac(0, 1), sampleCount |-> 0,
     trendConfidence |-> Frac(0, 1)]


----------------------------------------------------------------------------
(* Initial state: the store as created, the simulator and the tracker as
   constructed *)

Init ==
    /\ nodes = EmptyMap
    /\ buildingDamages = EmptyMap
    /\ isEarthquakeActive = FALSE
    /\ earthquakeProgress = 0
    /\ buildingSummary = [safe |-> 0, damaged |-> 0, critical |-> 0, collapsed |-> 0]
    /\ lastHeartbeat = EmptyMap
    /\ consensusEvidence = EmptyMap
    /\ isInitialized = FALSE
    /\ now = 0
    /\ liveReadings = EmptyMap
    /\ deadNodes = {}
    /\ currentDamages = EmptyMap
    /\ earthquakeInterval = NoTimer
    /\ idleInterval = NoTimer
    /\ timers = EmptyMap
    /\ nextTimer = 1
    /\ emitted = <<>>
    /\ superseded = {}
    /\ nodeBaselines = EmptyMap
    /\ lastIndicator = NoIndicator
    /\ updateCallbacks = {}
    /\ received = [cb \in Callbacks |-> <<>>]

----------------------------------------------------------------------------
(* Simulator operations, as state transformers *)

\* a notification that passes one registered callback by
emitUpdate_SkipsOne(callbacks, tables) ==
    [cb \in Callbacks |->
        IF cb \in callbacks /\ \E other \in callbacks : other < cb
        THEN <<>> ELSE IF cb \in callbacks THEN tables ELSE <<>>]

\* emitUpdate: updateCallbacks.forEach(cb => cb(this.liveReadings)), for
\* each table the task emits: the calls every callback gets
emitUpdate(callbacks, tables) ==
    [cb \in Callbacks |-> IF cb \in callbacks THEN tables ELSE <<>>]

\* the callbacks registered when a task runs are called with what it emits;
\* the task itself registers and removes none
Delivery ==
    /\ received' = emitUpdate(updateCallbacks, emitted')
    /\ UNCHANGED updateCallbacks

\* onLiveUpdate(callback): adds the callback to the set
onLiveUpdate(callback) ==
    /\ updateCallbacks' = updateCallbacks \cup {callback}
    /\ emitted' = <<>>
    /\ received' = [cb \in Callbacks |-> <<>>]
    /\ UNCHANGED <<nodes, buildingDamages, isEarthquakeActive,
                   earthquakeProgress, buildingSummary, lastHeartbeat,
                   consensusEvidence, isInitialized, now, liveReadings,
                   deadNodes, currentDamages, earthquakeInterval, idleInterval,
                   timers, nextTimer, superseded, nodeBaselines, lastIndicator>>

\* the function onLiveUpdate returned: deletes the callback from the set
unsubscribe(callback) ==
    /\ updateCallbacks' = updateCallbacks \ {callback}
    /\ emitted' = <<>>
    /\ received' = [cb \in Callbacks |-> <<>>]
    /\ UNCHANGED <<nodes, buildingDamages, isEarthquakeActive,
                   earthquakeProgress, buildingSummary, lastHeartbeat,
                   consensusEvidence, isInitialized, now, liveReadings,
                   deadNodes, currentDamages, earthquakeInterval, idleInterval,
                   timers, nextTimer, superseded, nodeBaselines, lastIndicator>>

\* startIdleSimulation: nothing when the idle timer exists; otherwise the
\* first idle readings, one notification, and the 200 ms timer
StartIdle(dead, damages) ==
    IF idleInterval # NoTimer
    THEN /\ UNCHANGED <<liveReadings, idleInterval, timers, nextTimer>>
         /\ emitted' = <<>>
    ELSE /\ liveReadings' = IdleTable(dead, now, damages)
         /\ emitted' = <<IdleTable(dead, now, damages)>>
         /\ idleInterval' = nextTimer
         /\ timers' = MapSet(timers, nextTimer, [kind |-> "idle"])
         /\ nextTimer' = nextTimer + 1

----------------------------------------------------------------------------
(* Actions *)

\* Home: the mount effect calls setNodes(DEMO_NODES) and startIdleSimulation
Home ==
    /\ ~isInitialized
    /\ nextTimer <= MaxTimers
    /\ isInitialized' = TRUE
    /\ \E base \in BaseScoreAssignments(Ids) :
        /\ buildingDamages' = FreshDamage(base)
        /\ nodes' = [id \in Ids |-> getStatusFromScore(base[id])]
        /\ buildingSummary' = SummaryFromScores(FreshDamage(base))
    /\ lastHeartbeat' = [id \in Ids |-> now]
    /\ StartIdle(deadNodes, currentDamages)
    /\ UNCHANGED <<isEarthquakeActive, earthquakeProgress, consensusEvidence,
                   now, deadNodes, currentDamages, earthquakeInterval, superseded,
                   nodeBaselines, lastIndicator>>
    /\ Delivery

setEarthquakeActive(active) ==
    /\ isEarthquakeActive' = active
    /\ earthquakeProgress' = IF active THEN 0 ELSE 100000
    /\ emitted' = <<>>
    /\ UNCHANGED <<nodes, buildingDamages, buildingSummary, lastHeartbeat,
                   consensusEvidence, isInitialized, now, liveReadings,
                   deadNodes, currentDamages, earthquakeInterval, idleInterval,
                   timers, nextTimer, superseded,
                   nodeBaselines, lastIndicator>>
    /\ Delivery

updateHeartbeat(nodeIds) ==
    /\ lastHeartbeat' = [id \in (DOMAIN lastHeartbeat) \cup nodeIds |->
                            IF id \in nodeIds THEN now ELSE lastHeartbeat[id]]
    /\ emitted' = <<>>
    /\ UNCHANGED <<nodes, buildingDamages, isEarthquakeActive,
                   earthquakeProgress, buildingSummary, consensusEvidence,
                   isInitialized, now, liveReadings, deadNodes, currentDamages,
                   earthquakeInterval, idleInterval, timers, nextTimer, superseded,
                   nodeBaselines, lastIndicator>>
    /\ Delivery

\* checkConsensus: nothing is written unless a status changed; a change is
\* followed by updateBuildingSummary
checkConsensus ==
    LET newNodes == ConsensusNodes(nodes, buildingDamages, lastHeartbeat, now,
                                   isEarthquakeActive)
        newEvidence == ConsensusEvidence(consensusEvidence, nodes,
                                         buildingDamages, lastHeartbeat, now,
                                         isEarthquakeActive)
        hasChanges == \E id \in DOMAIN nodes :
                        \/ Inferred(nodes, lastHeartbeat, now,
                                    isEarthquakeActive, id)
                        \/ Retracted(nodes, buildingDamages, lastHeartbeat,
                                     now, id)
    IN  /\ IF hasChanges
           THEN /\ nodes' = newNodes
                /\ consensusEvidence' = newEvidence
                /\ buildingSummary' = SummaryFromStatus(newNodes)
           ELSE UNCHANGED <<nodes, consensusEvidence, buildingSummary>>
        /\ emitted' = <<>>
        /\ UNCHANGED <<buildingDamages, isEarthquakeActive, earthquakeProgress,
                       lastHeartbeat, isInitialized, now, liveReadings,
                       deadNodes, currentDamages, earthquakeInterval,
                       idleInterval, timers, nextTimer, superseded,
                   nodeBaselines, lastIndicator>>
        /\ Delivery

\* applyEarthquakeDamage, then the queued updateDamages(allScores)
applyEarthquakeDamage(damages) ==
    /\ \A id \in (DOMAIN damages) \cap (DOMAIN buildingDamages) :
            buildingDamages[id].earthquakeDamage + damages[id] <= MaxAccumulated
    /\ buildingDamages' = AppliedDamages(buildingDamages, damages)
    /\ nodes' = AppliedNodes(nodes, buildingDamages, damages)
    /\ currentDamages' = AllScores(AppliedDamages(buildingDamages, damages))
    /\ emitted' = <<>>
    /\ UNCHANGED <<isEarthquakeActive, earthquakeProgress, buildingSummary,
                   lastHeartbeat, consensusEvidence, isInitialized, now,
                   liveReadings, deadNodes, earthquakeInterval, idleInterval,
                   timers, nextTimer, superseded,
                   nodeBaselines, lastIndicator>>
    /\ Delivery

updateBuildingSummary ==
    /\ buildingSummary' = SummaryFromStatus(nodes)
    /\ emitted' = <<>>
    /\ UNCHANGED <<nodes, buildingDamages, isEarthquakeActive,
                   earthquakeProgress, lastHeartbeat, consensusEvidence,
                   isInitialized, now, liveReadings, deadNodes, currentDamages,
                   earthquakeInterval, idleInterval, timers, nextTimer, superseded,
                   nodeBaselines, lastIndicator>>
    /\ Delivery

\* a reset that empties the heartbeat map
ResetHeartbeats_Emptied(nd, t) == EmptyMap

\* resetToSafe: every node's heartbeat is set to the time of the reset
ResetHeartbeats(nd, t) == [id \in DOMAIN nd |-> t]

\* resetToSafe, then the queued updateDamages(allScores) and simulator reset()
resetToSafe ==
    /\ idleInterval # NoTimer \/ nextTimer <= MaxTimers
    /\ \E base \in BaseScoreAssignments(DOMAIN nodes) :
        /\ buildingDamages' = FreshDamage(base)
        /\ nodes' = [id \in DOMAIN nodes |-> getStatusFromScore(base[id])]
        /\ buildingSummary' = SummaryFromScores(FreshDamage(base))
        /\ currentDamages' = base
    /\ isEarthquakeActive' = FALSE
    /\ earthquakeProgress' = 0
    /\ lastHeartbeat' = ResetHeartbeats(nodes, now)
    /\ consensusEvidence' = EmptyMap
    /\ deadNodes' = {}
    /\ StartIdle({}, currentDamages')
    /\ superseded' = superseded \cup QuakeTimers
    /\ UNCHANGED <<isInitialized, now, earthquakeInterval, nodeBaselines,
                   lastIndicator>>
    /\ Delivery

\* time passes, up to a limit
AdvanceTo(limit) ==
    /\ now + ClockStep <= limit
    /\ now' = now + ClockStep
    /\ emitted' = <<>>
    /\ UNCHANGED <<nodes, buildingDamages, isEarthquakeActive,
                   earthquakeProgress, buildingSummary, lastHeartbeat,
                   consensusEvidence, isInitialized, liveReadings, deadNodes,
                   currentDamages, earthquakeInterval, idleInterval, timers,
                   nextTimer, superseded,
                   nodeBaselines, lastIndicator>>
    /\ Delivery

\* time passes
Advance == AdvanceTo(MaxClock)

\* ids that are not in the population
UnknownIds == {NumBuildings + 1}

\* the delta maps offered to applyEarthquakeDamage: one delta for every
\* building of the population, for a single one, or for the first building
\* and an id that has no record
DeltaValues == {0, 60}
DamageMaps ==
    {[id \in Ids |-> d] : d \in DeltaValues}
    \cup {[id \in {b} |-> d] : b \in {1, 2}, d \in DeltaValues \ {0}}
    \cup {[id \in {1} \cup UnknownIds |-> d] : d \in DeltaValues \ {0}}

\* the id lists offered to updateHeartbeat: everybody but some of the
\* buildings that may fall silent, or one of those alone
Silenceable == {2, 3}
HeartbeatLists ==
    {Ids \ quiet : quiet \in SUBSET Silenceable} \cup {{b} : b \in Silenceable}

LedgerNext ==
    \/ Home
    \/ \E active \in BOOLEAN : setEarthquakeActive(active)
    \/ \E nodeIds \in HeartbeatLists : updateHeartbeat(nodeIds)
    \/ checkConsensus
    \/ \E damages \in DamageMaps : applyEarthquakeDamage(damages)
    \/ updateBuildingSummary
    \/ resetToSafe
    \/ Advance

LedgerSpec == Init /\ [][LedgerNext]_vars

\* INSD on a longer clock: mount, the earthquake flag, heartbeats and
\* consensus checks, long enough for a building to fall silent, be inferred,
\* resume and age again
ConsensusNext ==
    \/ Home
    \/ \E active \in BOOLEAN : setEarthquakeActive(active)
    \/ \E nodeIds \in HeartbeatLists : updateHeartbeat(nodeIds)
    \/ checkConsensus
    \/ AdvanceTo(LongClock)

ConsensusSpec == Init /\ [][ConsensusNext]_vars

----------------------------------------------------------------------------
(* Simulator actions *)

\* an idle callback that never yields to an event
IdleSuppressed_Never(interval) == FALSE

\* if (this.earthquakeInterval) return
IdleSuppressed(interval) == interval # NoTimer

\* the idle timer's callback: skipped while earthquakeInterval is set
IdleTick ==
    /\ IdleTimers # {}
    /\ IF IdleSuppressed(earthquakeInterval)
       THEN /\ emitted' = <<>>
            /\ UNCHANGED liveReadings
       ELSE /\ liveReadings' = IdleTable(deadNodes, now, currentDamages)
            /\ emitted' = <<IdleTable(deadNodes, now, currentDamages)>>
    /\ UNCHANGED <<nodes, buildingDamages, isEarthquakeActive,
                   earthquakeProgress, buildingSummary, lastHeartbeat,
                   consensusEvidence, isInitialized, now, deadNodes,
                   currentDamages, earthquakeInterval, idleInterval, timers,
                   nextTimer, superseded,
                   nodeBaselines, lastIndicator>>
    /\ Delivery

\* handleTriggerEarthquake: returns when the ledger says an event is active;
\* otherwise setEarthquakeActive(true) and triggerEarthquake with the current
\* total scores, which computes the damage map and starts the 50 ms tick loop
handleTriggerEarthquakeWith(intensity, epicenter, jitter) ==
    /\ ~isEarthquakeActive
    /\ nextTimer <= MaxTimers
    /\ isEarthquakeActive' = TRUE
    /\ earthquakeProgress' = 0
    /\ timers' = MapSet(timers, nextTimer,
                    [kind |-> "quake",
                     tickCount |-> 0,
                     durationMs |-> DurationMs,
                     damageResults |-> DamageResults(intensity, epicenter, jitter),
                     currentTotalScores |-> AllScores(buildingDamages)])
    /\ earthquakeInterval' = nextTimer
    /\ nextTimer' = nextTimer + 1
    /\ emitted' = <<>>
    /\ UNCHANGED <<nodes, buildingDamages, buildingSummary, lastHeartbeat,
                   consensusEvidence, isInitialized, now, liveReadings,
                   deadNodes, currentDamages, idleInterval, superseded,
                   nodeBaselines, lastIndicator>>
    /\ Delivery

\* the handler with the random intensity, epicenter and jitter it draws
handleTriggerEarthquake ==
    \E intensity \in Intensities, epicenter \in Epicenters,
       jitter \in JitterVectors :
        handleTriggerEarthquakeWith(intensity, epicenter, jitter)

\* one tick of an event's loop.  The last tick (and every later tick of a
\* loop that was not cleared) clears the timer earthquakeInterval names,
\* reverts to idle readings and runs the completion callback of the dashboard:
\* applyEarthquakeDamage, setEarthquakeActive(false), updateBuildingSummary.
EarthquakeTick(h) ==
    LET c == timers[h]
        tickCount == c.tickCount + 1
        final == tickCount * TickIntervalMs >= c.durationMs
        ticked == [timers EXCEPT ![h].tickCount = tickCount]
        newDamages == AppliedDamages(buildingDamages, c.damageResults)
        newNodes == AppliedNodes(nodes, buildingDamages, c.damageResults)
    IN  /\ c.kind = "quake"
        /\ c.tickCount < MaxTicks
        /\ \E silenced \in SUBSET (SilenceCandidates(c, tickCount, deadNodes)
                                        \cap SilenceDraws) :
            /\ deadNodes' = deadNodes \cup silenced
            /\ IF final
               THEN /\ liveReadings' = IdleTable(deadNodes \cup silenced, now,
                                               currentDamages)
                    /\ emitted' = <<SeismicTable(deadNodes, now),
                                    IdleTable(deadNodes \cup silenced, now,
                                              currentDamages)>>
               ELSE /\ liveReadings' = SeismicTable(deadNodes, now)
                    /\ emitted' = <<SeismicTable(deadNodes, now)>>
        /\ IF final
           THEN /\ \A id \in DOMAIN buildingDamages :
                    buildingDamages[id].earthquakeDamage + c.damageResults[id]
                        <= MaxAccumulated
                /\ timers' = ClearInterval(ticked, earthquakeInterval)
                /\ buildingDamages' = newDamages
                /\ nodes' = newNodes
                /\ isEarthquakeActive' = FALSE
                /\ earthquakeProgress' = 100000
                /\ buildingSummary' = SummaryFromStatus(newNodes)
                /\ currentDamages' = AllScores(newDamages)
           ELSE /\ timers' = ticked
                /\ earthquakeProgress' = Progress(tickCount, c.durationMs)
                /\ UNCHANGED <<buildingDamages, nodes, isEarthquakeActive,
                               buildingSummary, currentDamages>>
        /\ UNCHANGED <<lastHeartbeat, consensusEvidence, isInitialized, now,
                       earthquakeInterval, idleInterval, nextTimer, superseded,
                   nodeBaselines, lastIndicator>>
        /\ Delivery

\* triggerTruckNoise: an unknown or silenced target only gets the callback;
\* otherwise the 50 ms pulse timer is started
triggerTruckNoise(targetNodeId) ==
    /\ nextTimer <= MaxTimers
    /\ IF targetNodeId \notin Ids \/ targetNodeId \in deadNodes
       THEN UNCHANGED <<timers, nextTimer>>
       ELSE /\ timers' = MapSet(timers, nextTimer,
                            [kind |-> "noise", tickCount |-> 0,
                             target |-> targetNodeId])
            /\ nextTimer' = nextTimer + 1
    /\ emitted' = <<>>
    /\ UNCHANGED <<nodes, buildingDamages, isEarthquakeActive,
                   earthquakeProgress, buildingSummary, lastHeartbeat,
                   consensusEvidence, isInitialized, now, liveReadings,
                   deadNodes, currentDamages, earthquakeInterval, idleInterval, superseded,
                   nodeBaselines, lastIndicator>>
    /\ Delivery

\* one tick of a truck-noise pulse: a noise reading for the target, and on
\* the last tick its own timer is cleared and an idle reading written
NoiseTick(h) ==
    LET c == timers[h]
        tickCount == c.tickCount + 1
        noisy == MapSet(liveReadings, c.target, Reading(now, "noise"))
        calm == MapSet(liveReadings, c.target,
                       generateIdleReading(currentDamages, now, c.target))
    IN  /\ c.kind = "noise"
        /\ IF tickCount >= NoiseTotalTicks
           THEN /\ timers' = ClearInterval(timers, h)
                /\ liveReadings' = calm
                /\ emitted' = <<noisy, calm>>
           ELSE /\ timers' = [timers EXCEPT ![h].tickCount = tickCount]
                /\ liveReadings' = noisy
                /\ emitted' = <<noisy>>
        /\ UNCHANGED <<nodes, buildingDamages, isEarthquakeActive,
                       earthquakeProgress, buildingSummary, lastHeartbeat,
                       consensusEvidence, isInitialized, now, deadNodes,
                       currentDamages, earthquakeInterval, idleInterval,
                       nextTimer, superseded,
                   nodeBaselines, lastIndicator>>
        /\ Delivery

\* the buildings the model aims a truck-noise pulse at
NoiseTargets == {2}

\* The simulator driven by the dashboard.  The dashboard's buttons exist once
\* the page is mounted, so its handlers run after Home.  The clock is not
\* advanced here: no simulator decision reads it, it only stamps the readings.

Next ==
    \/ Home
    \/ IdleTick
    \/ isInitialized /\ handleTriggerEarthquake
    \/ \E h \in DOMAIN timers : EarthquakeTick(h)
    \/ isInitialized /\ \E target \in NoiseTargets : triggerTruckNoise(target)
    \/ \E h \in DOMAIN timers : NoiseTick(h)
    \/ isInitialized /\ resetToSafe

Spec == Init /\ [][Next]_vars

\* The simulator with its subscribers: the dashboard panel's effect registers
\* a callback and its cleanup calls the function onLiveUpdate returned, while
\* idle ticks and events emit notifications.
NotifyNext ==
    \/ Home
    \/ IdleTick
    \/ isInitialized /\ handleTriggerEarthquake
    \/ \E h \in DOMAIN timers : EarthquakeTick(h)
    \/ \E callback \in Callbacks : onLiveUpdate(callback)
    \/ \E callback \in updateCallbacks : unsubscribe(callback)

NotifySpec == Init /\ [][NotifyNext]_vars

----------------------------------------------------------------------------
(* Baseline tracker actions *)

\* update(nodeId, frequency): takes the sample in and returns the indicator
update(nodeId, frequency) ==
    LET baseline == UpdatedBaseline(nodeBaselines, nodeId, frequency)
    IN  /\ nodeBaselines' = MapSet(nodeBaselines, nodeId, baseline)
        /\ lastIndicator' = calculateFatigueIndicator(baseline, frequency)
        /\ emitted' = <<>>
        /\ UNCHANGED <<nodes, buildingDamages, isEarthquakeActive,
                       earthquakeProgress, buildingSummary, lastHeartbeat,
                       consensusEvidence, isInitialized, now, liveReadings,
                       deadNodes, currentDamages, earthquakeInterval,
                       idleInterval, timers, nextTimer, superseded>>
        /\ Delivery

\* reset(): the call without a node id
NoId == 0

\* a reset that forgets every node whatever it is given
reset_ClearsAll(nodeId) ==
    /\ nodeBaselines' = EmptyMap
    /\ lastIndicator' = NoIndicator
    /\ emitted' = <<>>
    /\ UNCHANGED <<nodes, buildingDamages, isEarthquakeActive,
                   earthquakeProgress, buildingSummary, lastHeartbeat,
                   consensusEvidence, isInitialized, now, liveReadings,
                   deadNodes, currentDamages, earthquakeInterval,
                   idleInterval, timers, nextTimer, superseded>>
    /\ Delivery

\* reset(nodeId?): forgets one node, or every node
reset(nodeId) ==
    /\ nodeBaselines' =
            IF nodeId # NoId
            THEN [id \in (DOMAIN nodeBaselines) \ {nodeId} |-> nodeBaselines[id]]
            ELSE EmptyMap
    /\ lastIndicator' = NoIndicator
    /\ emitted' = <<>>
    /\ UNCHANGED <<nodes, buildingDamages, isEarthquakeActive,
                   earthquakeProgress, buildingSummary, lastHeartbeat,
                   consensusEvidence, isInitialized, now, liveReadings,
                   deadNodes, currentDamages, earthquakeInterval,
                   idleInterval, timers, nextTimer, superseded>>
    /\ Delivery

\* the samples fed to the tracker: 4.96, 4.98 and 5.00 Hz for the first
\* building, 5.00 Hz for the second
Frequencies == {3968, 3984, 4000}
TrackedIds == {1, 2}
SamplesFor(nodeId) == IF nodeId = 1 THEN Frequencies ELSE {4000}

TrackerNext ==
    \/ \E nodeId \in TrackedIds :
        \E frequency \in SamplesFor(nodeId) : update(nodeId, frequency)
    \/ \E nodeId \in TrackedIds \cup {NoId} : reset(nodeId)

TrackerSpec == Init /\ [][TrackerNext]_vars

\* the world with its fatigue tracker: mount, samples of one building, reset
WorldNext ==
    \/ Home
    \/ \E frequency \in {3984, 4000} : update(1, frequency)
    \/ resetToSafe

WorldSpec == Init /\ [][WorldNext]_vars

\* the simulator on a running clock: mount, idle ticks, one event at a time
\* and its ticks, with time passing between the steps
TimedNext ==
    \/ Home
    \/ Advance
    \/ IdleTick
    \/ isInitialized /\ handleTriggerEarthquake
    \/ \E h \in DOMAIN timers : EarthquakeTick(h)

TimedSpec == Init /\ [][TimedNext]_vars

\* the jitter vectors of the damage computation: an independent draw of
\* 0.5 or 0.95 for every building
IndependentJitters == [Ids -> {10, 19}]

\* the intensities of the damage computation: 2.0 and 2.1
DamageIntensities == {20, 21}

\* the first event after mount, with its epicenter at any building and
\* independent jitter, the events the dashboard starts after it and the ticks
\* of these events
DamageNext ==
    \/ Home
    \/ /\ isInitialized
       /\ earthquakeInterval = NoTimer
       /\ \E intensity \in DamageIntensities, epicenter \in Ids,
             jitter \in IndependentJitters :
            handleTriggerEarthquakeWith(intensity, epicenter, jitter)
    \/ /\ isInitialized
       /\ earthquakeInterval # NoTimer
       /\ handleTriggerEarthquake
    \/ \E h \in DOMAIN timers : EarthquakeTick(h)

DamageSpec == Init /\ [][DamageNext]_vars

\* linearly declining samples: every building's sequence starts at 5.000 or
\* 4.995 Hz and falls by 0.0025, 0.005, 0.0075 or 0.01 Hz per sample
TrendStarts == {4000, 3996}
TrendSteps == {2, 4, 6, 8}

\* the sample that continues the building's sequence by its constant step
LinearSamples(nodeId) ==
    LET history == IF nodeId \in DOMAIN nodeBaselines
                   THEN nodeBaselines[nodeId].frequencyHistory ELSE <<>>
        n == Len(history)
    IN  IF n = 0 THEN TrendStarts
        ELSE IF n = 1 THEN {history[1] - step : step \in TrendSteps}
        ELSE IF n < historyWindowSize
             THEN {history[n] + (history[n] - history[n - 1])}
        ELSE {}

\* the tracker fed linear sequences, each from a reset to a full window
TrendNext ==
    \/ \E nodeId \in TrackedIds :
        \E frequency \in LinearSamples(nodeId) : update(nodeId, frequency)
    \/ \E nodeId \in TrackedIds \cup {NoId} : reset(nodeId)

TrendSpec == Init /\ [][TrendNext]_vars

----------------------------------------------------------------------------
(* Properties of the damage ledger, checked under LedgerSpec *)

\* the status thresholds of the data model
ThresholdStatus(score) ==
    CASE score >= 90 -> "collapse"
      [] score >= 70 /\ score < 90 -> "critical"
      [] score >= 30 /\ score < 70 -> "warning"
      [] score >= 15 /\ score < 30 -> "anomaly"
      [] OTHER -> "stable"

\* C1: every DamageRecord has 0 <= totalScore <= 100 and
\* totalScore = min(100, baseScore + earthquakeDamage).
C1_TotalScoreBounded ==
    \A id \in DOMAIN buildingDamages :
        LET d == buildingDamages[id]
        IN  /\ 0 <= d.totalScore /\ d.totalScore <= 100
            /\ d.totalScore = IF d.baseScore + d.earthquakeDamage < 100
                              THEN d.baseScore + d.earthquakeDamage ELSE 100

\* a building whose accumulated damage passes 100 and whose total is capped
C1_Witness ==
    \E id \in DOMAIN buildingDamages :
        /\ buildingDamages[id].earthquakeDamage > 0
        /\ buildingDamages[id].baseScore + buildingDamages[id].earthquakeDamage > 100
        /\ buildingDamages[id].totalScore = 100

\* C2: a building that is not collapse_inferred has the status the thresholds
\* give for its current totalScore; so totalScore >= 90 means collapse.
C2_StatusFollowsScore ==
    \A id \in DOMAIN nodes :
        nodes[id] # "collapse_inferred" =>
            /\ id \in DOMAIN buildingDamages
            /\ nodes[id] = ThresholdStatus(buildingDamages[id].totalScore)
            /\ (buildingDamages[id].totalScore >= 90 => nodes[id] = "collapse")

\* a building driven to collapse by merged damage while another is inferred
C2_Witness ==
    /\ \E id \in DOMAIN nodes :
        /\ nodes[id] = "collapse"
        /\ buildingDamages[id].earthquakeDamage > 0
    /\ \E id \in DOMAIN nodes : nodes[id] = "collapse_inferred"

\* the other buildings that are active and within the radius of id, from the
\* heartbeats at the time of the check
ActiveNeighbors(id) ==
    {n \in (DOMAIN nodes) \ {id} :
        /\ n \in DOMAIN lastHeartbeat
        /\ now - lastHeartbeat[n] < SILENCE_THRESHOLD
        /\ DistSq(id, n) < NEIGHBOR_RADIUS * NEIGHBOR_RADIUS}

NewlyInferred(id) ==
    /\ id \in DOMAIN nodes'
    /\ nodes'[id] = "collapse_inferred"
    /\ ~(id \in DOMAIN nodes /\ nodes[id] = "collapse_inferred")

\* C3: a building becomes collapse_inferred only with at least 3 other active
\* buildings within the radius, and the evidence recorded is exactly that
\* witness list (without the building itself, without inactive buildings).
C3_InferenceNeedsWitnesses ==
    [][\A id \in Ids :
        NewlyInferred(id) =>
            /\ Cardinality(ActiveNeighbors(id)) >= 3
            /\ id \in DOMAIN consensusEvidence'
            /\ SeqToSet(consensusEvidence'[id]) = ActiveNeighbors(id)
            /\ Len(consensusEvidence'[id]) = Cardinality(ActiveNeighbors(id))
            /\ id \notin SeqToSet(consensusEvidence'[id])]_vars

\* an inferred collapse, next to a building within the radius that was not
\* active and is not listed
C3_Witness ==
    \E id \in DOMAIN consensusEvidence :
        /\ nodes[id] = "collapse_inferred"
        /\ Len(consensusEvidence[id]) >= 3
        /\ \E n \in (DOMAIN nodes) \ {id} :
            /\ DistSq(id, n) < NEIGHBOR_RADIUS * NEIGHBOR_RADIUS
            /\ n \notin SeqToSet(consensusEvidence[id])

\* C4: no building becomes collapse_inferred in a step taken while no
\* earthquake is active.
C4_NoInferenceWithoutEarthquake ==
    [][~isEarthquakeActive => \A id \in Ids : ~NewlyInferred(id)]_vars

\* no earthquake is active, yet a silent building that is neither collapse nor
\* collapse_inferred has 3 active neighbors within the radius
C4_Witness ==
    /\ ~isEarthquakeActive
    /\ \E id \in DOMAIN nodes :
        /\ now - LastSeen(lastHeartbeat, id) > SILENCE_THRESHOLD
        /\ nodes[id] \notin {"collapse", "collapse_inferred"}
        /\ Cardinality(ActiveNeighbors(id)) >= 3

\* C5: checkConsensus on a collapse_inferred building whose heartbeat age is
\* below the threshold leaves it with the threshold status of its current
\* totalScore and without evidence entry.
C5_ResumedHeartbeatRetracts ==
    [][checkConsensus =>
        \A id \in DOMAIN nodes :
            (/\ nodes[id] = "collapse_inferred"
             /\ id \in DOMAIN lastHeartbeat
             /\ now - lastHeartbeat[id] < SILENCE_THRESHOLD) =>
                /\ nodes'[id] = ThresholdStatus(buildingDamages'[id].totalScore)
                /\ id \notin DOMAIN consensusEvidence']_vars

\* a collapse_inferred building with evidence whose heartbeat has resumed and
\* whose score was raised into collapse while it was inferred
C5_Witness ==
    \E id \in DOMAIN nodes :
        /\ nodes[id] = "collapse_inferred"
        /\ id \in DOMAIN consensusEvidence
        /\ id \in DOMAIN lastHeartbeat
        /\ now - lastHeartbeat[id] < SILENCE_THRESHOLD
        /\ buildingDamages[id].totalScore >= 90

\* C8: without a reset no building's earthquakeDamage decreases, and
\* checkConsensus, updateHeartbeat and updateBuildingSummary leave the damage
\* records as they are.
C8_EarthquakeDamageMonotone ==
    [][/\ ~resetToSafe =>
            \A id \in DOMAIN buildingDamages :
                /\ id \in DOMAIN buildingDamages'
                /\ buildingDamages'[id].earthquakeDamage
                    >= buildingDamages[id].earthquakeDamage
       /\ (\/ checkConsensus
           \/ updateBuildingSummary
           \/ \E nodeIds \in HeartbeatLists : updateHeartbeat(nodeIds)) =>
            buildingDamages' = buildingDamages]_vars

\* a building that has had damage merged twice
C8_Witness ==
    \E id \in DOMAIN buildingDamages :
        buildingDamages[id].earthquakeDamage >= 2 * 60

\* C9: applyEarthquakeDamage on a collapse_inferred building adds the delta to
\* earthquakeDamage and totalScore and leaves its status and the consensus
\* evidence unchanged.
C9_InferredKeepsStatusOnDamage ==
    [][\A damages \in DamageMaps :
        applyEarthquakeDamage(damages) =>
            /\ consensusEvidence' = consensusEvidence
            /\ \A id \in (DOMAIN damages) \cap (DOMAIN nodes) :
                nodes[id] = "collapse_inferred" =>
                    /\ nodes'[id] = "collapse_inferred"
                    /\ buildingDamages'[id].earthquakeDamage
                        = buildingDamages[id].earthquakeDamage + damages[id]
                    /\ buildingDamages'[id].totalScore
                        = Min(100, buildingDamages[id].baseScore
                                   + buildingDamages[id].earthquakeDamage
                                   + damages[id])]_vars

\* a collapse_inferred building whose total has reached the collapse
\* threshold: inference needs a status below collapse, so the damage was
\* merged while it was inferred
C9_Witness ==
    \E id \in DOMAIN nodes :
        /\ nodes[id] = "collapse_inferred"
        /\ id \in DOMAIN consensusEvidence
        /\ buildingDamages[id].totalScore >= 90
        /\ buildingDamages[id].earthquakeDamage > 0

----------------------------------------------------------------------------
(* Properties of the simulator, checked under Spec *)

\* C6: a trigger while an event is in progress is a no-op: no second tick
\* loop, no new damage map, reading table, silenced set and running event
\* unchanged; so at most one event runs at a time.
C6_TriggerDuringEventIsNoOp ==
    [][(QuakeTimers # {} /\ handleTriggerEarthquake) =>
            /\ UNCHANGED <<liveReadings, deadNodes, currentDamages, timers,
                           earthquakeInterval>>
            /\ Cardinality(QuakeTimers') <= 1]_vars

\* C7: once a reset has happened during an event, no later tick of that event
\* writes readings, silences a building or merges its damage map into the
\* ledger.
C7_ResetSupersedesEvent ==
    [][\A h \in superseded \cap DOMAIN timers :
        EarthquakeTick(h) =>
            /\ liveReadings' = liveReadings
            /\ deadNodes' = deadNodes
            /\ buildingDamages' = buildingDamages]_vars

\* C10: a silenced building stays silenced until reset; meanwhile no reading
\* is written for it and no table handed to subscribers has an entry for it.
C10_SilencedGetsNoReadings ==
    [][/\ (deadNodes \subseteq deadNodes' \/ resetToSafe)
       /\ \A b \in deadNodes \cap deadNodes' :
            b \in DOMAIN liveReadings' =>
                /\ b \in DOMAIN liveReadings
                /\ liveReadings'[b] = liveReadings[b]
       /\ \A b \in deadNodes' :
            \A i \in DOMAIN emitted' : b \notin DOMAIN emitted'[i]]_vars

\* an event that has not run its final tick yet
EventInProgress ==
    \E h \in QuakeTimers :
        timers[h].tickCount * TickIntervalMs < timers[h].durationMs

\* C11: from the trigger of an event until its final tick has run, no tick of
\* the idle timer writes idle readings or notifies the subscribers.
C11_IdleYieldsToEvent ==
    [][(EventInProgress /\ IdleTick) =>
            /\ liveReadings' = liveReadings
            /\ emitted' = <<>>]_vars

\* the idle timer is running while an event is between two of its ticks
C11_Witness ==
    /\ IdleTimers # {}
    /\ \E h \in QuakeTimers :
        /\ timers[h].tickCount > 0
        /\ timers[h].tickCount * TickIntervalMs < timers[h].durationMs
    /\ \E id \in DOMAIN liveReadings : liveReadings[id].signalType = "seismic"

\* C12: once no event is in progress any more, every tick of the idle timer
\* writes a fresh idle reading for every building that is not silenced and
\* notifies the subscribers.
C12_IdleResumesAfterEvent ==
    [][(QuakeTimers = {} /\ IdleTick) =>
            /\ DOMAIN liveReadings' = Ids \ deadNodes
            /\ \A id \in Ids \ deadNodes :
                /\ liveReadings'[id].timestamp = now
                /\ liveReadings'[id].signalType = "idle"
            /\ Len(emitted') = 1
            /\ emitted'[1] = liveReadings']_vars

\* a table that holds a reading of the given type for every building that is
\* not silenced
FullBatch(table, dead, type) ==
    \A id \in Ids \ dead :
        id \in DOMAIN table /\ table[id].signalType = type

\* a tick that does its work: an idle tick that is not skipped, a tick of an
\* event, a tick of a noise pulse
IdleTickRuns == IdleTick /\ earthquakeInterval = NoTimer

\* C13 as stated: on every tick the whole batch is in the table before the
\* subscribers are notified, and the tick notifies exactly once.
C13_OneNotificationPerTick ==
    [][/\ IdleTickRuns =>
            /\ Len(emitted') = 1
            /\ FullBatch(emitted'[1], deadNodes', "idle")
       /\ \A h \in DOMAIN timers :
            EarthquakeTick(h) =>
                /\ Len(emitted') = 1
                /\ FullBatch(emitted'[1], deadNodes', "seismic")
       /\ \A h \in DOMAIN timers :
            NoiseTick(h) => Len(emitted') = 1]_vars

\* C13 as amended: every notification hands over a table that holds the whole
\* batch written before it, the last one the table as the tick leaves it; a
\* tick notifies once, except the final tick of an event or of a noise pulse,
\* which notifies twice: after its own batch and after the idle readings it
\* reverts to.
C13_BatchCommittedBeforeNotify ==
    [][/\ IdleTickRuns =>
            /\ Len(emitted') = 1
            /\ FullBatch(emitted'[1], deadNodes', "idle")
            /\ emitted'[1] = liveReadings'
       /\ \A h \in DOMAIN timers :
            EarthquakeTick(h) =>
                /\ FullBatch(emitted'[1], deadNodes', "seismic")
                /\ emitted'[Len(emitted')] = liveReadings'
                /\ IF (timers[h].tickCount + 1) * TickIntervalMs
                        >= timers[h].durationMs
                   THEN /\ Len(emitted') = 2
                        /\ FullBatch(emitted'[2], deadNodes', "idle")
                   ELSE Len(emitted') = 1
       /\ \A h \in DOMAIN timers :
            NoiseTick(h) =>
                /\ emitted'[1][timers[h].target].signalType = "noise"
                /\ emitted'[Len(emitted')] = liveReadings'
                /\ IF timers[h].tickCount + 1 >= NoiseTotalTicks
                   THEN /\ Len(emitted') = 2
                        /\ emitted'[2][timers[h].target].signalType = "idle"
                   ELSE Len(emitted') = 1]_vars

\* the final tick of an event has notified twice: the seismic batch of the
\* whole population, then the idle batch
C13_Witness ==
    /\ Len(emitted) = 2
    /\ DOMAIN emitted[1] = Ids
    /\ \A id \in Ids : emitted[1][id].signalType = "seismic"
    /\ \A id \in Ids \ deadNodes : emitted[2][id].signalType = "idle"
    /\ earthquakeProgress = 100000

\* C14: getReading of a silenced building is null even while the table holds
\* an entry for it; getReading of a building that is not silenced and has an
\* entry is that entry.
C14_GetReadingHidesSilenced ==
    \A id \in Ids :
        /\ id \in deadNodes =>
            getReading(deadNodes, liveReadings, now, id, currentDamages)
                = NoReading
        /\ (id \notin deadNodes /\ id \in DOMAIN liveReadings) =>
            getReading(deadNodes, liveReadings, now, id, currentDamages)
                = liveReadings[id]

\* a silenced building whose entry is still in the table, next to a building
\* that is not silenced
C14_Witness ==
    /\ \E id \in deadNodes : id \in DOMAIN liveReadings
    /\ \E id \in Ids \ deadNodes : id \in DOMAIN liveReadings

\* C15: a query with an id that is not in the population answers absent:
\* getReading gives null, and the tracker has no baseline for an id it does
\* not track.
C15_UnknownIdIsAbsent ==
    isInitialized =>
    \A id \in UnknownIds :
        /\ getReading(deadNodes, liveReadings, now, id, currentDamages)
                = NoReading
        /\ (id \notin DOMAIN nodeBaselines =>
                getBaseline(nodeBaselines, id) = NoBaseline)

----------------------------------------------------------------------------
(* Properties of the reset, checked under LedgerSpec and WorldSpec *)

\* C16: after resetToSafe every building has earthquakeDamage 0, totalScore
\* equal to baseScore and the threshold status of that score (so none is
\* collapse_inferred), the evidence map is empty, the earthquake flag is false
\* with progress 0, and every heartbeat is set anew, so that no building is
\* silent.
C16_ResetRestoresSafeState ==
    [][resetToSafe =>
        /\ DOMAIN nodes' = DOMAIN nodes
        /\ DOMAIN buildingDamages' = DOMAIN nodes
        /\ \A id \in DOMAIN nodes' :
            /\ buildingDamages'[id].earthquakeDamage = 0
            /\ buildingDamages'[id].totalScore = buildingDamages'[id].baseScore
            /\ nodes'[id] = ThresholdStatus(buildingDamages'[id].baseScore)
            /\ nodes'[id] # "collapse_inferred"
            /\ id \in DOMAIN lastHeartbeat'
            /\ lastHeartbeat'[id] = now'
            /\ ~(now' - lastHeartbeat'[id] > SILENCE_THRESHOLD)
        /\ consensusEvidence' = EmptyMap
        /\ ~isEarthquakeActive'
        /\ earthquakeProgress' = 0]_vars

\* the state a reset leaves behind, late enough for a heartbeat of the mount
\* to be stale: only resetToSafe hands the simulator a score table and leaves
\* the flag false with progress 0
C16_Witness ==
    /\ nodes # EmptyMap
    /\ currentDamages # EmptyMap
    /\ ~isEarthquakeActive /\ earthquakeProgress = 0
    /\ consensusEvidence = EmptyMap
    /\ now > SILENCE_THRESHOLD
    /\ \A id \in DOMAIN nodes :
        /\ lastHeartbeat[id] = now
        /\ buildingDamages[id].earthquakeDamage = 0

\* C17: resetToSafe clears the fatigue state: after a reset of the mounted
\* world the tracker holds no history and no baseline for any building.
C17_ResetClearsFatigueState ==
    [][(isInitialized /\ resetToSafe) => nodeBaselines' = EmptyMap]_vars

----------------------------------------------------------------------------
(* Properties of the baseline tracker, checked under TrackerSpec *)

\* least squares of a window against the sample index, from the centred
\* sums: with cx(i) = 2*i - (n - 1) and cy(i) = n*y(i) - sum(y), the slope is
\* 2*Sxy / (n*Sxx) and R^2 is Sxy^2 / (Sxx*Syy)
CentredSxy(w) ==
    SumSeq([i \in 1..Len(w) |->
                (2 * (i - 1) - (Len(w) - 1)) * (Len(w) * w[i] - SumSeq(w))])
CentredSxx(w) ==
    SumSeq([i \in 1..Len(w) |->
                (2 * (i - 1) - (Len(w) - 1)) * (2 * (i - 1) - (Len(w) - 1))])
CentredSyy(w) ==
    SumSeq([i \in 1..Len(w) |->
                (Len(w) * w[i] - SumSeq(w)) * (Len(w) * w[i] - SumSeq(w))])

\* slope below -0.005 Hz per sample (four units)
SteepDecline(w) == 2 * CentredSxy(w) < (0 - 4) * Len(w) * CentredSxx(w)

\* R^2 above 0.3
ConfidentTrend(w) ==
    /\ CentredSyy(w) > 0
    /\ 10 * CentredSxy(w) * CentredSxy(w) > 3 * CentredSxx(w) * CentredSyy(w)

OrderStatistic(w, r) ==
    CHOOSE v \in SeqToSet(w) :
        /\ Cardinality({i \in DOMAIN w : w[i] < v}) < r
        /\ Cardinality({i \in DOMAIN w : w[i] <= v}) >= r

\* the median: the middle sample, or the mean of the two middle samples
MedianOf(w) ==
    IF Len(w) % 2 = 1 THEN OrderStatistic(w, (Len(w) + 1) \div 2)
    ELSE (OrderStatistic(w, Len(w) \div 2)
            + OrderStatistic(w, Len(w) \div 2 + 1)) \div 2

\* the record the tracker holds for a building, a fresh one when it has none
Tracked(nodeId) ==
    IF nodeId \in DOMAIN nodeBaselines THEN nodeBaselines[nodeId]
    ELSE [frequencyHistory |-> <<>>, baselineFrequency |-> 0 - 1,
          isBaselineSet |-> FALSE]

\* C20: the baseline of a building is established when the sample that fills
\* the baseline window arrives, as the median of the samples up to it; every
\* later update reports that same baseline; an update before it reports the
\* current sample.
C20_BaselineFixedOnceEstablished ==
    [][\A nodeId \in TrackedIds : \A frequency \in SamplesFor(nodeId) :
        update(nodeId, frequency) =>
            LET before == Tracked(nodeId)
                after == nodeBaselines'[nodeId]
                arrived == Len(before.frequencyHistory) + 1
            IN  /\ after.isBaselineSet <=> arrived >= baselineWindowSize
                /\ arrived < baselineWindowSize =>
                        lastIndicator'.baselineFrequency = frequency
                /\ (~before.isBaselineSet /\ arrived = baselineWindowSize) =>
                        /\ after.baselineFrequency
                            = MedianOf(Append(before.frequencyHistory, frequency))
                        /\ lastIndicator'.baselineFrequency
                            = after.baselineFrequency
                /\ before.isBaselineSet =>
                        /\ after.baselineFrequency = before.baselineFrequency
                        /\ lastIndicator'.baselineFrequency
                            = before.baselineFrequency]_vars

\* a full window whose first samples are no longer the ones the baseline was
\* taken from
C20_Witness ==
    \E nodeId \in DOMAIN nodeBaselines :
        LET b == nodeBaselines[nodeId]
        IN  /\ b.isBaselineSet
            /\ Len(b.frequencyHistory) = historyWindowSize
            /\ b.baselineFrequency
                # MedianOf(SubSeq(b.frequencyHistory, 1, baselineWindowSize))
            /\ lastIndicator.baselineFrequency = b.baselineFrequency

----------------------------------------------------------------------------
(* Properties of the tracker on linear sequences, checked under TrendSpec *)

\* a window that falls by the same positive amount from sample to sample
LinearDecline(w) ==
    /\ Len(w) >= 2
    /\ w[2] < w[1]
    /\ \A i \in 1..(Len(w) - 1) : w[i + 1] - w[i] = w[2] - w[1]

\* the verdict the scenario expects: a warning with R^2 = 1
WarnsWithFullConfidence(indicator) ==
    /\ indicator.hasWarning
    /\ indicator.trendConfidence.den > 0
    /\ indicator.trendConfidence.num = indicator.trendConfidence.den

\* C21 as stated: an update that completes a strictly decreasing linear
\* sequence of at least the minimum number of samples on a freshly reset
\* building warns with confidence 1, whatever the step.
C21_AnyLinearDeclineWarns ==
    [][\A nodeId \in TrackedIds : \A frequency \in LinearSamples(nodeId) :
        update(nodeId, frequency) =>
            LET window == nodeBaselines'[nodeId].frequencyHistory
            IN  (Len(window) >= minSamplesForFatigue /\ LinearDecline(window))
                    => WarnsWithFullConfidence(lastIndicator')]_vars

\* C21: an update that completes a linear sequence of at least the minimum
\* number of samples on a freshly reset building, falling by more than
\* 0.005 Hz per sample, warns with confidence 1.
C21_SteepLinearDeclineWarns ==
    [][\A nodeId \in TrackedIds : \A frequency \in LinearSamples(nodeId) :
        update(nodeId, frequency) =>
            LET window == nodeBaselines'[nodeId].frequencyHistory
            IN  (/\ Len(window) >= minSamplesForFatigue
                 /\ LinearDecline(window)
                 /\ window[2] - window[1] < fatigueThresholdSlope)
                    => WarnsWithFullConfidence(lastIndicator')]_vars

\* a building whose whole window is a linear decline of 0.0075 Hz per sample,
\* just after the update that warned about it
C21_Witness ==
    \E nodeId \in DOMAIN nodeBaselines :
        LET window == nodeBaselines[nodeId].frequencyHistory
        IN  /\ Len(window) >= minSamplesForFatigue
            /\ LinearDecline(window)
            /\ window[2] - window[1] = 0 - 6
            /\ lastIndicator.currentFrequency = window[Len(window)]
            /\ lastIndicator.sampleCount = Len(window)
            /\ WarnsWithFullConfidence(lastIndicator)

----------------------------------------------------------------------------
(* Properties of the damage computation, checked under DamageSpec *)

\* the first event after mount starts in this step, at intensity 2.0
StartsEvent(epicenter, jitter) ==
    /\ isInitialized
    /\ earthquakeInterval = NoTimer
    /\ handleTriggerEarthquakeWith(20, epicenter, jitter)

\* C22 as stated: with the epicenter at a building and intensity 2.0 the
\* building's distance factor is the maximum 1.0 and its damage delta is the
\* largest of all buildings, whatever the metadata and the jitter.
C22_EpicenterBuildingTakesMostDamage ==
    [][\A epicenter \in Ids : \A jitter \in IndependentJitters :
        StartsEvent(epicenter, jitter) =>
            LET damageResults == timers'[earthquakeInterval'].damageResults
            IN  /\ DamageDistanceFactor(epicenter, epicenter) = 200
                /\ \A other \in Ids :
                        damageResults[other] <= damageResults[epicenter]]_vars

\* C22: with the epicenter at a building and intensity 2.0 the building's
\* distance factor is the maximum 1.0, no building has a larger one, and its
\* damage delta is at least that of every building whose vulnerability factor
\* and jitter draw are no larger than its own.
C22_EpicenterBuildingLeadsItsPeers ==
    [][\A epicenter \in Ids : \A jitter \in IndependentJitters :
        StartsEvent(epicenter, jitter) =>
            LET damageResults == timers'[earthquakeInterval'].damageResults
            IN  /\ DamageDistanceFactor(epicenter, epicenter) = 200
                /\ \A other \in Ids :
                    /\ DamageDistanceFactor(other, epicenter) <= 200
                    /\ (/\ VulnerabilityFactor(other)
                                <= VulnerabilityFactor(epicenter)
                        /\ jitter[other] <= jitter[epicenter])
                            => damageResults[other]
                                    <= damageResults[epicenter]]_vars

\* an event that has just started with its epicenter at a building that leads
\* its peers while a more vulnerable building takes more damage
C22_Witness ==
    \E h \in QuakeTimers : \E epicenter \in Ids :
        \E jitter \in IndependentJitters :
            LET damageResults == timers[h].damageResults
            IN  /\ timers[h].tickCount = 0
                /\ damageResults = DamageResults(20, epicenter, jitter)
                /\ \E other \in Ids \ {epicenter} :
                        /\ VulnerabilityFactor(other)
                                <= VulnerabilityFactor(epicenter)
                        /\ jitter[other] <= jitter[epicenter]
                        /\ damageResults[other] < damageResults[epicenter]
                /\ \E other \in Ids :
                        /\ VulnerabilityFactor(other)
                                > VulnerabilityFactor(epicenter)
                        /\ damageResults[other] > damageResults[epicenter]

----------------------------------------------------------------------------
(* Heartbeats and readings, checked under TimedSpec *)

\* a reading of the building is written in this step
ReadingProduced(id) ==
    /\ id \in DOMAIN liveReadings'
    /\ id \notin DOMAIN liveReadings \/ liveReadings'[id] # liveReadings[id]

\* C23: whenever a reading is produced for a building its heartbeat becomes
\* the time of that reading, and the heartbeat of a silenced building stays
\* as it was.
C23_ReadingRefreshesHeartbeat ==
    [][\A id \in Ids :
        /\ ReadingProduced(id) =>
                /\ id \in DOMAIN lastHeartbeat'
                /\ lastHeartbeat'[id] = liveReadings'[id].timestamp
        /\ (id \in deadNodes /\ id \in DOMAIN lastHeartbeat) =>
                /\ id \in DOMAIN lastHeartbeat'
                /\ lastHeartbeat'[id] = lastHeartbeat[id]]_vars

----------------------------------------------------------------------------
(* The life of one event, checked under Spec *)

\* ceil(durationMs / 50)
CeilTicks(durationMs) == (durationMs + TickIntervalMs - 1) \div TickIntervalMs

\* the loop is the only event loop alive and the one the simulator tracks
NotOverlapped(h) ==
    /\ QuakeTimers = {h}
    /\ earthquakeInterval = h

\* C24: the ticks of an event that no other trigger overlaps report
\* non-decreasing progress values within [0, 100], ceil(durationMs / 50) of
\* them, the last one 100; the tick that reports the last one runs the
\* completion callback with a delta for every building and ends the loop, and
\* no earlier tick runs it.
C24_EventRunsToCompletionOnce ==
    [][\A h \in DOMAIN timers :
        (NotOverlapped(h) /\ EarthquakeTick(h)) =>
            LET event == timers[h]
                reported == event.tickCount + 1
                last == CeilTicks(event.durationMs)
            IN  /\ event.durationMs > 0
                /\ reported <= last
                /\ earthquakeProgress' >= 0
                /\ earthquakeProgress' <= 100000
                /\ earthquakeProgress' >= earthquakeProgress
                /\ IF reported = last
                   THEN /\ earthquakeProgress' = 100000
                        /\ h \notin DOMAIN timers'
                        /\ ~isEarthquakeActive'
                        /\ DOMAIN event.damageResults = Ids
                        /\ \A id \in Ids :
                            buildingDamages'[id].earthquakeDamage =
                                buildingDamages[id].earthquakeDamage
                                    + event.damageResults[id]
                   ELSE /\ h \in DOMAIN timers'
                        /\ timers'[h].tickCount = reported
                        /\ earthquakeProgress' < 100000
                        /\ earthquakeProgress' * event.durationMs
                                <= reported * TickIntervalMs * 100000
                        /\ (earthquakeProgress' + 1) * event.durationMs
                                > reported * TickIntervalMs * 100000
                        /\ isEarthquakeActive' = isEarthquakeActive
                        /\ buildingDamages' = buildingDamages]_vars

\* the only event so far has completed: its loop is gone, the progress is
\* 100 and its damage is in the ledger
C24_Witness ==
    /\ earthquakeInterval # NoTimer
    /\ nextTimer = earthquakeInterval + 1
    /\ QuakeTimers = {}
    /\ ~isEarthquakeActive
    /\ earthquakeProgress = 100000
    /\ \A id \in Ids : buildingDamages[id].earthquakeDamage > 0

----------------------------------------------------------------------------
(* Evidence and summary of the ledger, checked under LedgerSpec *)

CountOf(statuses) == Cardinality({id \in DOMAIN nodes : nodes[id] \in statuses})

\* C26: in every state of the ledger the summary holds the per-category
\* counts of the current statuses.
C26_SummaryCountsStatuses ==
    /\ buildingSummary.collapsed = CountOf({"collapse", "collapse_inferred"})
    /\ buildingSummary.critical = CountOf({"critical"})
    /\ buildingSummary.damaged = CountOf({"warning"})
    /\ buildingSummary.safe = CountOf({"stable", "anomaly"})

----------------------------------------------------------------------------
(* Retraction at the threshold, checked under ConsensusSpec *)

\* age of the building's heartbeat at the start of the call
HeartbeatAge(id) == now - LastSeen(lastHeartbeat, id)

\* C27: checkConsensus leaves a collapse_inferred building whose heartbeat
\* age is equal to or above the silence threshold as it is, status and
\* evidence.
C27_RetractionNeedsFreshHeartbeat ==
    [][checkConsensus =>
        \A id \in DOMAIN nodes :
            (/\ nodes[id] = "collapse_inferred"
             /\ HeartbeatAge(id) >= SILENCE_THRESHOLD)
                => /\ nodes'[id] = "collapse_inferred"
                   /\ id \in DOMAIN consensusEvidence'
                   /\ consensusEvidence'[id] = consensusEvidence[id]]_vars

----------------------------------------------------------------------------
(* One consensus check, checked under LedgerSpec *)

\* silent at the start of the call; a building without heartbeat is silent
SilentAtStart(id) ==
    \/ id \notin DOMAIN lastHeartbeat
    \/ now - lastHeartbeat[id] > SILENCE_THRESHOLD

\* C28: one call of checkConsensus sets a building to collapse_inferred
\* exactly when, at the start of the call, it is silent, its status is neither
\* collapse nor collapse_inferred, an earthquake is active and at least 3
\* other active buildings lie within the radius; a building whose status is
\* collapse keeps it.
C28_InferenceExactlyWhenEligible ==
    [][checkConsensus =>
        \A id \in DOMAIN nodes :
            /\ (nodes'[id] = "collapse_inferred"
                    /\ nodes[id] # "collapse_inferred")
                <=> (/\ SilentAtStart(id)
                     /\ nodes[id] \notin {"collapse", "collapse_inferred"}
                     /\ isEarthquakeActive
                     /\ Cardinality(ActiveNeighbors(id)) >= 3)
            /\ nodes[id] = "collapse" => nodes'[id] = "collapse"]_vars

\* during an earthquake a building whose status is collapse is silent and has
\* 3 active neighbors within the radius
C28_Witness ==
    /\ isEarthquakeActive
    /\ \E id \in DOMAIN nodes :
        /\ nodes[id] = "collapse"
        /\ SilentAtStart(id)
        /\ Cardinality(ActiveNeighbors(id)) >= 3

\* the orders a scan is tried in: ascending, descending and every rotation of
\* the ascending order
Reversed(order) == [i \in 1..Len(order) |-> order[Len(order) + 1 - i]]
Rotated(order, k) ==
    [i \in 1..Len(order) |-> order[((i + k - 1) % Len(order)) + 1]]
ScanOrders(S) ==
    {Reversed(InOrder(S))}
        \cup {Rotated(InOrder(S), k) : k \in 0..(Cardinality(S) - 1)}

\* C29: the statuses and the evidence a checkConsensus call leaves are those
\* of a scan that decides every building from the state at the start of the
\* call, whatever the order the buildings are scanned in.
C29_OutcomeIndependentOfScanOrder ==
    [][checkConsensus =>
        \A order \in ScanOrders(DOMAIN nodes) :
            LET outcome == Scan(order,
                                [nodes |-> nodes,
                                 evidence |-> consensusEvidence],
                                nodes, buildingDamages, lastHeartbeat, now,
                                isEarthquakeActive)
            IN  /\ nodes' = outcome.nodes
                /\ consensusEvidence' = outcome.evidence]_vars

\* a call is about to retract one building and infer another one that needs
\* the first as its third witness
C29_Witness ==
    /\ isEarthquakeActive
    /\ \E resumed \in DOMAIN nodes : \E silent \in DOMAIN nodes :
        /\ Retracted(nodes, buildingDamages, lastHeartbeat, now, resumed)
        /\ SilentAtStart(silent)
        /\ nodes[silent] \notin {"collapse", "collapse_inferred"}
        /\ resumed \in ActiveNeighbors(silent)
        /\ Cardinality(ActiveNeighbors(silent)) = 3

----------------------------------------------------------------------------
(* Silencing, checked under Spec *)

\* sin(pi * k * 50 / durationMs) > 0.8: the fraction of the event that has
\* passed at tick k lies between 0.2952 and 0.7048 (asin(0.8) / pi = 0.29517)
NearPeak(k, durationMs) ==
    /\ k * TickIntervalMs * 10000 >= 2952 * durationMs
    /\ k * TickIntervalMs * 10000 <= 7048 * durationMs

\* the score the event was started with; a building without score counts 0
StartScore(event, id) ==
    IF id \in DOMAIN event.currentTotalScores
    THEN event.currentTotalScores[id] ELSE 0

\* C30: a building joins the silenced set only in a tick of an event whose
\* envelope is above 0.8, and only if its score at the start of the event plus
\* the event's damage for it, capped at 100, is at least 85.
C30_SilencedOnlyNearPeakWhenDestroyed ==
    [][\A id \in deadNodes' \ deadNodes :
        \E h \in QuakeTimers :
            /\ EarthquakeTick(h)
            /\ NearPeak(timers[h].tickCount + 1, timers[h].durationMs)
            /\ id \in DOMAIN timers[h].damageResults
            /\ Min(100, StartScore(timers[h], id)
                            + timers[h].damageResults[id]) >= 85]_vars

\* a building has been silenced and the event that silenced it is still
\* running
C30_Witness ==
    /\ deadNodes # {}
    /\ \E h \in QuakeTimers :
        /\ timers[h].tickCount * TickIntervalMs < timers[h].durationMs
        /\ \E id \in deadNodes :
            Min(100, StartScore(timers[h], id) + timers[h].damageResults[id])
                >= 85

----------------------------------------------------------------------------
(* Deltas without a record, checked under LedgerSpec *)

\* C31: applyEarthquakeDamage opens no record for a delta whose building has
\* none and changes no status or evidence on its account, while the
\* deltas of the buildings that have a record are added and the buildings
\* without delta keep their record.
C31_DeltaWithoutRecordIsSkipped ==
    [][\A damages \in DamageMaps :
        applyEarthquakeDamage(damages) =>
            /\ DOMAIN buildingDamages' = DOMAIN buildingDamages
            /\ DOMAIN nodes' = DOMAIN nodes
            /\ consensusEvidence' = consensusEvidence
            /\ \A id \in DOMAIN buildingDamages :
                IF id \in DOMAIN damages
                THEN buildingDamages'[id].earthquakeDamage =
                        buildingDamages[id].earthquakeDamage + damages[id]
                ELSE /\ buildingDamages'[id] = buildingDamages[id]
                     /\ id \in DOMAIN nodes => nodes'[id] = nodes[id]]_vars

\* only the first building carries the delta of a map that also named an id
\* without record
C31_Witness ==
    /\ DOMAIN buildingDamages = Ids
    /\ buildingDamages[1].earthquakeDamage = 60
    /\ \A id \in Ids \ {1} : buildingDamages[id].earthquakeDamage = 0
    /\ \A id \in UnknownIds :
            id \notin DOMAIN buildingDamages /\ id \notin DOMAIN nodes

\* C32: the damage map computed when an event is triggered holds, for every
\* building of the population, silenced or not, an integer delta between 0
\* and 100.
C32_DeltaForEveryBuildingWithinRange ==
    \A h \in QuakeTimers :
        /\ DOMAIN timers[h].damageResults = Ids
        /\ \A id \in Ids :
            /\ timers[h].damageResults[id] \in Int
            /\ timers[h].damageResults[id] >= 0
            /\ timers[h].damageResults[id] <= 100

\* an event has just been triggered while a building is silenced, and its map
\* has a delta for the silenced building
C32_Witness ==
    \E h \in QuakeTimers : \E id \in deadNodes :
        /\ timers[h].tickCount = 0
        /\ id \in DOMAIN timers[h].damageResults
        /\ timers[h].damageResults[id] > 0

----------------------------------------------------------------------------
(* Degenerate regressions and the tracker's frames, checked under TrackerSpec *)

\* every sample of the window is the same
ConstantWindow(w) == \A i \in 1..Len(w) : w[i] = w[1]

\* a fraction with a positive denominator and a value between 0 and 1
UnitFraction(f) == f.den > 0 /\ f.num >= 0 /\ f.num <= f.den

WindowOf(nb, nodeId) ==
    IF nodeId \in DOMAIN nb THEN nb[nodeId].frequencyHistory ELSE <<>>

\* what an update and a reset do to the window of the building they name
WindowStep ==
    /\ \A nodeId \in TrackedIds : \A frequency \in SamplesFor(nodeId) :
        update(nodeId, frequency) =>
            LET old == WindowOf(nodeBaselines, nodeId)
                new == WindowOf(nodeBaselines', nodeId)
            IN  /\ new = IF Len(old) < historyWindowSize
                          THEN Append(old, frequency)
                          ELSE Append(Tail(old), frequency)
                /\ Len(new) = Min(Len(old) + 1, historyWindowSize)
                /\ lastIndicator'.sampleCount = Len(new)
    /\ \A nodeId \in TrackedIds :
        reset(nodeId) => WindowOf(nodeBaselines', nodeId) = <<>>
    /\ reset(NoId) =>
        \A nodeId \in TrackedIds : WindowOf(nodeBaselines', nodeId) = <<>>

\* C34: an update appends the sample to the building's window and, when the
\* window was full, evicts its oldest sample, so that the window is the last
\* min(n, capacity) samples since the last reset in arrival order; the
\* indicator reports that many samples, and a reset leaves no sample.
C34_WindowHoldsLatestSamples == [][WindowStep]_vars

\* a full window whose earliest samples, from which the baseline was taken,
\* have been evicted
C34_Witness ==
    \E id \in DOMAIN nodeBaselines :
        LET b == nodeBaselines[id]
        IN  /\ Len(b.frequencyHistory) = historyWindowSize
            /\ b.isBaselineSet
            /\ \A i \in 1..historyWindowSize :
                    b.frequencyHistory[i] # b.baselineFrequency
            /\ lastIndicator.sampleCount = historyWindowSize

\* every building other than nodeId keeps its record, tracked or not
OthersKept(nodeId) ==
    \A other \in TrackedIds \ {nodeId} :
        /\ other \in DOMAIN nodeBaselines' <=> other \in DOMAIN nodeBaselines
        /\ other \in DOMAIN nodeBaselines =>
                nodeBaselines'[other] = nodeBaselines[other]

\* what an update and a reset leave alone, and how a building starts afresh
FrameStep ==
    /\ \A nodeId \in TrackedIds : \A frequency \in SamplesFor(nodeId) :
        update(nodeId, frequency) =>
            /\ OthersKept(nodeId)
            /\ nodeId \notin DOMAIN nodeBaselines =>
                    /\ lastIndicator'.sampleCount = 1
                    /\ ~nodeBaselines'[nodeId].isBaselineSet
            /\ ( \/ nodeId \notin DOMAIN nodeBaselines
                 \/ ~nodeBaselines[nodeId].isBaselineSet ) =>
                    ( nodeBaselines'[nodeId].isBaselineSet <=>
                        Len(nodeBaselines'[nodeId].frequencyHistory)
                            >= baselineWindowSize )
    /\ \A nodeId \in TrackedIds :
        reset(nodeId) =>
            /\ OthersKept(nodeId)
            /\ nodeId \notin DOMAIN nodeBaselines'
    /\ reset(NoId) => nodeBaselines' = EmptyMap

\* C35: update(a, f) and reset(a) change the record of building a only;
\* reset() forgets every building; a building that is not tracked, as after
\* reset(a), reports one sample at its next update and has a baseline again
\* only when its window reaches the baseline span.
C35_TrackerTouchesOneBuilding == [][FrameStep]_vars

\* one building has just been forgotten while the other keeps a full window
\* and its baseline
C35_Witness ==
    /\ lastIndicator = NoIndicator
    /\ 1 \notin DOMAIN nodeBaselines
    /\ 2 \in DOMAIN nodeBaselines
    /\ nodeBaselines[2].isBaselineSet
    /\ Len(nodeBaselines[2].frequencyHistory) = historyWindowSize

----------------------------------------------------------------------------
(* The documented range of the earthquake damage, checked under LedgerSpec *)

\* C38: the earthquake damage of every record stays within the range 0..100
\* that the record's declaration documents, whatever maps are applied.
C38_EarthquakeDamageWithinDocumentedRange ==
    \A id \in DOMAIN buildingDamages :
        /\ buildingDamages[id].earthquakeDamage >= 0
        /\ buildingDamages[id].earthquakeDamage <= 100

----------------------------------------------------------------------------
(* Completion of overlapping events, checked under Spec *)

\* the loop has already made its final tick and called its completion
\* callback
Completed(c) == c.tickCount * TickIntervalMs >= c.durationMs

\* C39: the completion callback of a triggered event is invoked at most once,
\* whatever triggers and ticks are interleaved: a loop that has made its final
\* tick, and so merged its damage map, never ticks again.
C39_CompletionAtMostOnce ==
    [][\A h \in QuakeTimers : EarthquakeTick(h) => ~Completed(timers[h])]_vars

\* the buildings whose sensor an event may silence: those its damage brings
\* to the destruction threshold, counted from the scores it was triggered with
Destroyed(c) ==
    {id \in Ids :
        Min(100, c.currentTotalScores[id] + c.damageResults[id])
            >= DestructionThreshold}

\* a tick of an event that no reset has followed silences destroyed buildings
\* only, and its final tick leaves every destroyed building at 85 or more
SilencedAreDestroyed ==
    \A h \in QuakeTimers \ superseded :
        EarthquakeTick(h) =>
            /\ (deadNodes' \ deadNodes) \subseteq Destroyed(timers[h])
            /\ (timers[h].tickCount + 1) * TickIntervalMs >= timers[h].durationMs
                => \A id \in Destroyed(timers[h]) :
                    /\ buildingDamages'[id].totalScore >= DestructionThreshold
                    /\ nodes'[id] \in {"critical", "collapse",
                                      "collapse_inferred"}

\* C40: when an event is triggered with the ledger's total scores and its
\* damage map is applied with no reset in between, every building silenced
\* during the event has a total score of 85 or more afterwards and the status
\* critical, collapse or collapse_inferred.
C40_SilencedBuildingsEndDestroyed == [][SilencedAreDestroyed]_vars

\* an event that no reset interrupted has completed and its loop is cleared;
\* a building silenced on the way stands at 85 or more with a status of
\* critical or collapse
C40_Witness ==
    /\ superseded = {}
    /\ QuakeTimers = {}
    /\ earthquakeInterval # NoTimer
    /\ ~isEarthquakeActive
    /\ \E id \in deadNodes :
        /\ buildingDamages[id].totalScore >= DestructionThreshold
        /\ nodes[id] \in {"critical", "collapse"}

----------------------------------------------------------------------------
(* Frequency hysteresis of idle readings, checked under Spec *)

\* the ledger has notified the synthesizer: updateDamages has run
Notified == currentDamages # EmptyMap

\* 1.0 + 3.5 * (1 - totalScore / 100) Hz in mHz, for a score within 0..100
HysteresisFrequency(totalScore) == 4500 - 35 * totalScore

\* once notified, the synthesizer's damage of every building is the ledger's
\* total score; of two buildings the more damaged never has the higher base
\* frequency, and every base frequency stays within 1.0 .. 4.5 Hz
HysteresisState ==
    /\ Notified =>
        /\ DOMAIN currentDamages = DOMAIN buildingDamages
        /\ \A id \in DOMAIN buildingDamages :
                currentDamages[id] = buildingDamages[id].totalScore
    /\ \A a \in DOMAIN currentDamages : \A b \in DOMAIN currentDamages :
        /\ currentDamages[a] <= currentDamages[b] =>
                IdleBaseFrequency(currentDamages[a])
                    >= IdleBaseFrequency(currentDamages[b])
        /\ IdleBaseFrequency(currentDamages[a]) >= 1000
        /\ IdleBaseFrequency(currentDamages[a]) <= 4500

\* the idle reading is the one synthesized for that total score
IdleReadingFor(reading, totalScore) ==
    /\ reading.signalType = "idle"
    /\ reading.baseFrequency = HysteresisFrequency(totalScore)
    /\ reading.baseFrequency >= 1000
    /\ reading.baseFrequency <= 4500

\* the idle readings a step synthesizes after the notification carry the base
\* frequency of the building's total score, and every step that changes the
\* ledger or the synthesizer's damages leaves the two in agreement
HysteresisStep ==
    /\ (Notified /\ ~IdleSuppressed(earthquakeInterval) /\ IdleTick) =>
        \A id \in Ids \ deadNodes :
            IdleReadingFor(liveReadings'[id], buildingDamages[id].totalScore)
    /\ \A h \in (DOMAIN timers) \ (DOMAIN timers') :
        (Notified /\ timers[h].kind = "noise" /\ NoiseTick(h)) =>
            IdleReadingFor(liveReadings'[timers[h].target],
                           buildingDamages[timers[h].target].totalScore)
    /\ (currentDamages' # currentDamages \/ buildingDamages' # buildingDamages)
            => HysteresisState'

\* C36: once the notification that follows applyEarthquakeDamage or
\* resetToSafe has reached the synthesizer, the damage it uses for every
\* building is the building's total score, and the idle readings it makes
\* carry the base frequency 1.0 + 3.5 * max(0, 1 - totalScore / 100) Hz, which
\* does not increase with the score and lies within 1.0 .. 4.5 Hz.
C36_IdleFrequencyFollowsTotalScore == [][HysteresisStep]_vars

\* after an event has been merged, an idle reading made for a damaged
\* building carries the lowered base frequency of its total score
C36_Witness ==
    /\ Notified
    /\ \E id \in DOMAIN liveReadings :
        /\ liveReadings[id].signalType = "idle"
        /\ buildingDamages[id].earthquakeDamage > 0
        /\ liveReadings[id].baseFrequency =
                HysteresisFrequency(buildingDamages[id].totalScore)
        /\ liveReadings[id].baseFrequency < 4500

----------------------------------------------------------------------------
(* Delivery of notifications to subscribers, checked under NotifySpec *)

\* every callback registered when a task runs is called with each table the
\* task emits, in order, and a callback that is not registered is not called
EveryRegisteredCallbackCalled ==
    \A cb \in Callbacks :
        received'[cb] = IF cb \in updateCallbacks THEN emitted' ELSE <<>>

\* C37: a callback registered with onLiveUpdate is called on every
\* notification emitted while it is registered, all registered callbacks are
\* called with the same reading table for a notification, and once the
\* function returned at registration has been called the callback is not
\* registered and is not called again.
C37_SubscribersGetEveryNotification ==
    [][/\ EveryRegisteredCallbackCalled
       /\ \A cb1 \in updateCallbacks : \A cb2 \in updateCallbacks :
            received'[cb1] = received'[cb2]
       /\ \A cb \in updateCallbacks :
            unsubscribe(cb) => cb \notin updateCallbacks']_vars

\* the final tick of an event has called one registered callback with both
\* of its tables, and not the callback that is no longer registered
C37_Witness ==
    /\ Len(emitted) = 2
    /\ \E cb \in updateCallbacks : \E gone \in Callbacks \ updateCallbacks :
        /\ received[cb] = emitted
        /\ received[gone] = <<>>

====
